---------------------------- MODULE Spec2Model ----------------------------
(***************************************************************************)
(* A model of the book-recommendation backend (src/app.py): the plan       *)
(* generation handler generate_recommendation_plan with its catalog query, *)
(* response parsing, link synthesis and monthly allocation.                *)
(*                                                                         *)
(* Text is modelled as Python models it: a str is a sequence of one-       *)
(* character strings.  Ages are counted in half years (AgeUnit = 2 per     *)
(* year) so that fractional ages such as 8.5 are values of the model.      *)
(***************************************************************************)
EXTENDS Integers, Sequences, FiniteSets, TLC

(***************************************************************************)
(* Python str helpers                                                      *)
(***************************************************************************)
Quote == "\""

\* body(value), with value computed once however often body uses it
Let(value, body(_)) == CHOOSE r \in {body(v) : v \in {value}} : TRUE

\* whitespace as json.decoder.WHITESPACE and the regex class \s see it
IsWs(c) == c \in {" ", "\n", "\t"}

Digits == <<"0", "1", "2", "3", "4", "5", "6", "7", "8", "9">>

IsDigit(c) == \E d \in 1..10 : Digits[d] = c

DigitVal(c) == (CHOOSE d \in 1..10 : Digits[d] = c) - 1

\* s[i:] begins with the characters of w
StartsAt(s, i, w) ==
    /\ i >= 1
    /\ i + Len(w) - 1 <= Len(s)
    /\ \A k \in 1..Len(w) : s[i + k - 1] = w[k]

RECURSIVE SkipWs(_, _)
\* index of the first character at or after i that is not whitespace
SkipWs(s, i) ==
    IF i <= Len(s) /\ IsWs(s[i]) THEN SkipWs(s, i + 1) ELSE i

\* str.strip()
RECURSIVE RStripEnd(_, _)
RStripEnd(s, j) ==
    IF j >= 1 /\ IsWs(s[j]) THEN RStripEnd(s, j - 1) ELSE j

Strip(s) ==
    Let(s, LAMBDA t : SubSeq(t, SkipWs(t, 1), RStripEnd(t, Len(t))))

(***************************************************************************)
(* Python values as json.loads builds them.  Every value is a record of    *)
(* the same shape: t is the Python type, n the number of an int, s the     *)
(* characters of a str, e the items of a list (k unused) or of a dict      *)
(* (k the key), in insertion order.                                        *)
(***************************************************************************)
PyNone == [t |-> "None", n |-> 0, s |-> <<>>, e |-> <<>>]
PyBool(b) == [t |-> "bool", n |-> IF b THEN 1 ELSE 0, s |-> <<>>, e |-> <<>>]
PyInt(k) == [t |-> "int", n |-> k, s |-> <<>>, e |-> <<>>]
PyStr(chars) == [t |-> "str", n |-> 0, s |-> chars, e |-> <<>>]
PyList(items) == [t |-> "list", n |-> 0, s |-> <<>>, e |-> items]
PyDict(items) == [t |-> "dict", n |-> 0, s |-> <<>>, e |-> items]

Item(key, val) == [k |-> key, v |-> val]

\* d[key] = val on the items of a dict: a repeated key keeps its place and
\* takes the later value
DictSet(items, key, val) ==
    IF \E i \in 1..Len(items) : items[i].k = key
    THEN [i \in 1..Len(items) |->
             IF items[i].k = key THEN Item(key, val) ELSE items[i]]
    ELSE Append(items, Item(key, val))

\* dict.get(key, default)
DictGet(d, key, default) ==
    IF \E i \in 1..Len(d.e) : d.e[i].k = key
    THEN d.e[CHOOSE i \in 1..Len(d.e) : d.e[i].k = key].v
    ELSE default

\* bool(v)
Truthy(v) ==
    CASE v.t = "None" -> FALSE
      [] v.t = "bool" -> v.n = 1
      [] v.t = "int" -> v.n # 0
      [] v.t = "str" -> v.s # <<>>
      [] OTHER -> v.e # <<>>

(***************************************************************************)
(* json.loads: the strict decoder, character by character.  A result is    *)
(* [ok, v, p]: p is the index after the value.  The texts of this model    *)
(* hold no backslash, no fraction and no exponent.                         *)
(***************************************************************************)
JsonFail == [ok |-> FALSE, v |-> PyNone, p |-> 0]
JsonOk(val, next) == [ok |-> TRUE, v |-> val, p |-> next]

RECURSIVE FindQuote(_, _)
\* index of the closing quote of a string whose content starts at i; 0 when
\* the string is unterminated or holds a control character
FindQuote(s, i) ==
    IF i > Len(s) THEN 0
    ELSE IF s[i] = Quote THEN i
    ELSE IF s[i] \in {"\n", "\t"} THEN 0
    ELSE FindQuote(s, i + 1)

\* py_scanstring, s[i] being the opening quote
ScanString(s, i) ==
    LET j == FindQuote(s, i + 1)
    IN  IF j = 0 THEN JsonFail
        ELSE JsonOk(PyStr(SubSeq(s, i + 1, j - 1)), j + 1)

RECURSIVE ScanDigits(_, _, _)
\* the digits from i on, as [n, p]
ScanDigits(s, i, acc) ==
    IF i <= Len(s) /\ IsDigit(s[i])
    THEN ScanDigits(s, i + 1, 10 * acc + DigitVal(s[i]))
    ELSE [n |-> acc, p |-> i]

\* NUMBER_RE (-?(?:0|[1-9]\d*)) at i
ScanNumber(s, i) ==
    LET neg == s[i] = "-"
        j == IF neg THEN i + 1 ELSE i
    IN  IF j > Len(s) \/ ~IsDigit(s[j]) THEN JsonFail
        ELSE IF s[j] = "0" THEN JsonOk(PyInt(0), j + 1)
        ELSE LET d == ScanDigits(s, j, 0)
             IN  JsonOk(PyInt(IF neg THEN 0 - d.n ELSE d.n), d.p)

RECURSIVE ScanValue(_, _)
RECURSIVE ScanMembers(_, _, _)
RECURSIVE ScanElements(_, _, _)

\* JSONObject after a key is due at i (the opening brace or a comma and the
\* whitespace after it are consumed)
ScanMembers(s, i, acc) ==
    IF i > Len(s) \/ s[i] # Quote THEN JsonFail
    ELSE Let(ScanString(s, i), LAMBDA key :
         Let(IF key.ok THEN SkipWs(s, key.p) ELSE 0, LAMBDA c :
         IF ~key.ok \/ c > Len(s) \/ s[c] # ":" THEN JsonFail
         ELSE Let(ScanValue(s, SkipWs(s, c + 1)), LAMBDA val :
              Let(IF val.ok THEN SkipWs(s, val.p) ELSE 0, LAMBDA d :
              IF ~val.ok \/ d > Len(s) THEN JsonFail
              ELSE IF s[d] = "}"
              THEN JsonOk(PyDict(DictSet(acc, key.v.s, val.v)), d + 1)
              ELSE IF s[d] = ","
              THEN Let(SkipWs(s, d + 1), LAMBDA next :
                   Let(DictSet(acc, key.v.s, val.v), LAMBDA items :
                   ScanMembers(s, next, items)))
              ELSE JsonFail))))

\* JSONArray after a value is due at i
ScanElements(s, i, acc) ==
    Let(ScanValue(s, i), LAMBDA val :
    LET d == SkipWs(s, val.p)
    IN  IF ~val.ok \/ d > Len(s) THEN JsonFail
        ELSE IF s[d] = "]"
        THEN JsonOk(PyList(Append(acc, Item(<<>>, val.v))), d + 1)
        ELSE IF s[d] = ","
        THEN ScanElements(s, SkipWs(s, d + 1), Append(acc, Item(<<>>, val.v)))
        ELSE JsonFail)

\* scan_once at i
ScanValue(s, i) ==
    IF i > Len(s) THEN JsonFail
    ELSE IF s[i] = Quote THEN ScanString(s, i)
    ELSE IF s[i] = "{"
    THEN LET j == SkipWs(s, i + 1)
         IN  IF j <= Len(s) /\ s[j] = "}" THEN JsonOk(PyDict(<<>>), j + 1)
             ELSE ScanMembers(s, j, <<>>)
    ELSE IF s[i] = "["
    THEN LET j == SkipWs(s, i + 1)
         IN  IF j <= Len(s) /\ s[j] = "]" THEN JsonOk(PyList(<<>>), j + 1)
             ELSE ScanElements(s, j, <<>>)
    ELSE IF StartsAt(s, i, <<"n", "u", "l", "l">>) THEN JsonOk(PyNone, i + 4)
    ELSE IF StartsAt(s, i, <<"t", "r", "u", "e">>) THEN JsonOk(PyBool(TRUE), i + 4)
    ELSE IF StartsAt(s, i, <<"f", "a", "l", "s", "e">>)
    THEN JsonOk(PyBool(FALSE), i + 5)
    ELSE IF s[i] = "-" \/ IsDigit(s[i]) THEN ScanNumber(s, i)
    ELSE JsonFail

\* json.loads(s): one value, whitespace around it, nothing else
JsonLoads(s) ==
    Let(s, LAMBDA t :
    Let(ScanValue(t, SkipWs(t, 1)), LAMBDA r :
    IF r.ok /\ SkipWs(t, r.p) = Len(t) + 1 THEN r ELSE JsonFail))

(***************************************************************************)
(* Helpers to write JSON text.                                             *)
(***************************************************************************)
Str(chars) == <<Quote>> \o chars \o <<Quote>>

(***************************************************************************)
(* The two regular expressions of the parsing stage.                       *)
(***************************************************************************)
SetMax(S) == CHOOSE m \in S : \A o \in S : o <= m

\* the end of the match of \[\s*{.*}\s*\] (DOTALL) that starts at i, or 0:
\* the greedy .* runs to the last "}" that whitespace and "]" follow
ArrayMatchEnd(s, i) ==
    LET b == SkipWs(s, i + 1)
    IN  IF s[i] = "[" /\ b <= Len(s) /\ s[b] = "{"
        THEN LET ends == {e \in (b + 1)..Len(s) :
                             /\ s[e] = "]"
                             /\ RStripEnd(s, e - 1) > b
                             /\ s[RStripEnd(s, e - 1)] = "}"}
             IN  IF ends = {} THEN 0 ELSE SetMax(ends)
        ELSE 0

\* re.search(r'(\[\s*{.*}\s*\])', s, re.DOTALL): the leftmost match
ReSearchArray(s) ==
    Let({i \in 1..Len(s) : ArrayMatchEnd(s, i) # 0}, LAMBDA starts :
    IF starts = {} THEN [found |-> FALSE, group |-> <<>>]
    ELSE Let(CHOOSE m \in starts : \A o \in starts : m <= o, LAMBDA i :
         [found |-> TRUE, group |-> SubSeq(s, i, ArrayMatchEnd(s, i))]))

\* re.sub(r',\s*<closer>', '<closer>', s): every comma that whitespace and
\* the closer follow goes, with that whitespace
ReSubTrailingComma(s, closer) ==
    Let(s, LAMBDA t :
    Let({c \in 1..Len(t) : /\ t[c] = ","
                           /\ SkipWs(t, c + 1) <= Len(t)
                           /\ t[SkipWs(t, c + 1)] = closer}, LAMBDA commas :
    Let(SelectSeq([i \in 1..Len(t) |-> <<i, t[i]>>],
                  LAMBDA at : ~\E c \in commas :
                                  c <= at[1] /\ at[1] < SkipWs(t, c + 1)),
        LAMBDA kept : [k \in 1..Len(kept) |-> kept[k][2]])))

\* the JSON of the answer: the matched array or the stripped text, loaded
\* strictly and, when that raises, once more with trailing commas removed
LoadRecommendationsJson(raw_content) ==
    Let(raw_content, LAMBDA text :
    Let(ReSearchArray(text), LAMBDA json_match :
    Let(IF json_match.found THEN json_match.group ELSE Strip(text),
        LAMBDA json_str :
    Let(JsonLoads(json_str), LAMBDA first :
    IF first.ok THEN first
    ELSE JsonLoads(ReSubTrailingComma(ReSubTrailingComma(json_str, "}"),
                                      "]"))))))

(***************************************************************************)
(* The JustBookify search link of a series or author name.                 *)
(***************************************************************************)
UpperCase ==
    <<"A", "B", "C", "D", "E", "F", "G", "H", "I", "J", "K", "L", "M",
      "N", "O", "P", "Q", "R", "S", "T", "U", "V", "W", "X", "Y", "Z">>

LowerCase ==
    <<"a", "b", "c", "d", "e", "f", "g", "h", "i", "j", "k", "l", "m",
      "n", "o", "p", "q", "r", "s", "t", "u", "v", "w", "x", "y", "z">>

\* str.lower()
Lower(s) ==
    Let(s, LAMBDA t :
    [i \in 1..Len(t) |->
        IF \E u \in 1..26 : UpperCase[u] = t[i]
        THEN LowerCase[CHOOSE u \in 1..26 : UpperCase[u] = t[i]]
        ELSE t[i]])

RECURSIVE ReplaceFrom(_, _, _)
\* s[i:].replace(w, ""), w not empty
ReplaceFrom(s, i, w) ==
    IF i > Len(s) THEN <<>>
    ELSE IF StartsAt(s, i, w) THEN ReplaceFrom(s, i + Len(w), w)
    ELSE <<s[i]>> \o ReplaceFrom(s, i + 1, w)

Remove(s, w) == Let(s, LAMBDA t : ReplaceFrom(t, 1, w))

RECURSIVE WordEnd(_, _)
WordEnd(s, i) ==
    IF i <= Len(s) /\ ~IsWs(s[i]) THEN WordEnd(s, i + 1) ELSE i

RECURSIVE SplitFrom(_, _)
\* s[i:].split()
SplitFrom(s, i) ==
    LET j == SkipWs(s, i)
    IN  IF j > Len(s) THEN <<>>
        ELSE <<SubSeq(s, j, WordEnd(s, j) - 1)>> \o SplitFrom(s, WordEnd(s, j))

Split(s) == Let(s, LAMBDA t : SplitFrom(t, 1))

RECURSIVE JoinFrom(_, _)
JoinFrom(words, i) ==
    IF i > Len(words) THEN <<>>
    ELSE IF i = Len(words) THEN words[i]
    ELSE words[i] \o <<" ">> \o JoinFrom(words, i + 1)

\* " ".join(words)
Join(words) == Let(words, LAMBDA ws : JoinFrom(ws, 1))

\* urllib.parse.quote of one character of the model's alphabet: letters,
\* digits and _ . - ~ / are kept, the others percent-encoded
QuoteChar(c) ==
    CASE c = " " -> <<"%", "2", "0">>
      [] c = "'" -> <<"%", "2", "7">>
      [] c = "," -> <<"%", "2", "C">>
      [] c = ":" -> <<"%", "3", "A">>
      [] c = "{" -> <<"%", "7", "B">>
      [] c = "}" -> <<"%", "7", "D">>
      [] c = "[" -> <<"%", "5", "B">>
      [] c = "]" -> <<"%", "5", "D">>
      [] OTHER -> <<c>>

RECURSIVE UrlQuoteFrom(_, _)
UrlQuoteFrom(s, i) ==
    IF i > Len(s) THEN <<>> ELSE QuoteChar(s[i]) \o UrlQuoteFrom(s, i + 1)

\* urllib.parse.quote(s)
UrlQuote(s) == Let(s, LAMBDA t : UrlQuoteFrom(t, 1))

W_series == <<"s", "e", "r", "i", "e", "s">>
W_name == <<"n", "a", "m", "e">>

generic_suffixes ==
    { <<"c", "o", "m", "i", "c", "s">>, <<"b", "o", "o", "k", "s">>, W_series,
      <<"c", "o", "l", "l", "e", "c", "t", "i", "o", "n">>,
      <<"n", "o", "v", "e", "l", "s">> }

\* [w for w in words if w not in generic_suffixes]
FilterWords(words) ==
    Let(words, LAMBDA ws : SelectSeq(ws, LAMBDA w : w \notin generic_suffixes))

\* clean_name
CleanName(series_name) ==
    Let(Lower(series_name), LAMBDA lowered :
    Let(Remove(lowered, <<" ">> \o W_series \o <<" ">> \o W_name), LAMBDA s1 :
    Let(Remove(s1, W_series \o <<" ">> \o W_name), LAMBDA s2 :
    Let(Remove(s2, <<" ">> \o W_series), LAMBDA s3 :
    Let(Remove(s3, W_series), LAMBDA s4 :
    Let(Strip(Join(Split(s4))), LAMBDA s5 :
    IF s5 = <<>> THEN Strip(lowered) ELSE s5))))))

\* a faulty search term: clean_name quoted, the filtered name left unused
SearchTermUnfiltered(series_name) == CleanName(series_name)

\* the text given to urllib.parse.quote for a series name
SearchTerm(series_name) ==
    Let(CleanName(series_name), LAMBDA clean_name :
    Let(Strip(Join(FilterWords(Split(clean_name)))), LAMBDA filtered_name :
    IF filtered_name # <<>> THEN filtered_name ELSE clean_name))

\* 'https://www.justbookify.com/search?q='
LinkPrefix ==
    <<"h", "t", "t", "p", "s", ":", "/", "/", "w", "w", "w", ".", "j", "u",
      "s", "t", "b", "o", "o", "k", "i", "f", "y", ".", "c", "o", "m", "/",
      "s", "e", "a", "r", "c", "h", "?", "q", "=">>

\* '&options%5Bprefix%5D=last'
LinkSuffix ==
    <<"&", "o", "p", "t", "i", "o", "n", "s", "%", "5", "B", "p", "r", "e",
      "f", "i", "x", "%", "5", "D", "=", "l", "a", "s", "t">>

JustbookifyLink(series_name) ==
    LinkPrefix \o UrlQuote(SearchTerm(series_name)) \o LinkSuffix

(***************************************************************************)
(* Recommendation records from the parsed JSON.                            *)
(***************************************************************************)
K_name == W_name
K_likely_score ==
    <<"l", "i", "k", "e", "l", "y", "_", "s", "c", "o", "r", "e">>
K_rationale == <<"r", "a", "t", "i", "o", "n", "a", "l", "e">>
K_books == <<"b", "o", "o", "k", "s">>

\* what a for loop over v yields; ok is FALSE when v is not iterable
Iterate(v) ==
    CASE v.t = "list" ->
           [ok |-> TRUE, items |-> [i \in 1..Len(v.e) |-> v.e[i].v]]
      [] v.t = "dict" ->
           [ok |-> TRUE, items |-> [i \in 1..Len(v.e) |-> PyStr(v.e[i].k)]]
      [] v.t = "str" ->
           [ok |-> TRUE, items |-> [i \in 1..Len(v.s) |-> PyStr(<<v.s[i]>>)]]
      [] OTHER -> [ok |-> FALSE, items |-> <<>>]

\* one pass of the loop over recommendations_json: raised is TRUE when the
\* body raises (rec has no get, books is not iterable, name has no lower),
\* keep says whether a record is appended
RecordOf(rec) ==
    IF rec.t # "dict" THEN [raised |-> TRUE, keep |-> FALSE, rec |-> PyNone]
    ELSE
    LET series_name == DictGet(rec, K_name, PyStr(<<>>))
        confidence_score == DictGet(rec, K_likely_score, PyInt(8))
        rationale == DictGet(rec, K_rationale, PyStr(<<>>))
        titles == Iterate(DictGet(rec, K_books, PyList(<<>>)))
        sample_books == [i \in 1..Len(titles.items) |->
                            [title |-> titles.items[i], author |-> series_name]]
    IN  IF ~titles.ok THEN [raised |-> TRUE, keep |-> FALSE, rec |-> PyNone]
        ELSE IF ~(Truthy(series_name) /\ sample_books # <<>>)
        THEN [raised |-> FALSE, keep |-> FALSE, rec |-> PyNone]
        ELSE IF series_name.t # "str"
        THEN [raised |-> TRUE, keep |-> FALSE, rec |-> PyNone]
        ELSE [raised |-> FALSE, keep |-> TRUE,
              rec |-> [name |-> series_name,
                       justbookify_link |-> PyStr(JustbookifyLink(series_name.s)),
                       rationale |-> rationale,
                       confidence_score |-> confidence_score,
                       sample_books |-> sample_books]]

RECURSIVE CollectRecords(_, _, _)
\* the loop over the elements from index i on
CollectRecords(items, i, acc) ==
    IF i > Len(items) THEN [raised |-> FALSE, recs |-> acc]
    ELSE Let(RecordOf(items[i]), LAMBDA r :
         IF r.raised THEN [raised |-> TRUE, recs |-> <<>>]
         ELSE CollectRecords(items, i + 1,
                             IF r.keep THEN Append(acc, r.rec) ELSE acc))

(***************************************************************************)
(* recommendations.sort(key=confidence_score, reverse=True)                *)
(***************************************************************************)
\* the characters of the model in code point order
CodePoints ==
    <<"\t", "\n", " ", Quote, "%", "&", "'", "+", ",", "-", ".", "/">>
    \o Digits \o <<":", "=", "?">> \o UpperCase \o <<"[", "]", "_">>
    \o LowerCase \o <<"{", "}">>

Ord(c) == CHOOSE i \in 1..Len(CodePoints) : CodePoints[i] = c

RECURSIVE StrLess(_, _)
\* a < b on str
StrLess(a, b) ==
    IF b = <<>> THEN FALSE
    ELSE IF a = <<>> THEN TRUE
    ELSE IF Head(a) = Head(b) THEN StrLess(Tail(a), Tail(b))
    ELSE Ord(Head(a)) < Ord(Head(b))

IsNumber(v) == v.t \in {"int", "bool"}

\* a < b is defined: both numbers or both str (the scores of the model are
\* int, bool, str or None)
Comparable(a, b) ==
    \/ IsNumber(a) /\ IsNumber(b)
    \/ a.t = "str" /\ b.t = "str"

Less(a, b) == IF IsNumber(a) THEN a.n < b.n ELSE StrLess(a.s, b.s)

\* the sort raises TypeError as soon as it compares two keys that have no
\* order; with two or more records every key is compared
SortRaises(recs) ==
    /\ Len(recs) >= 2
    /\ \E i, j \in 1..Len(recs) :
          ~Comparable(recs[i].confidence_score, recs[j].confidence_score)

\* a faulty InsertByScore: rec put before the records of its own score, as
\* an ascending sort followed by reverse() would
InsertBeforeEqual(sorted, rec) ==
    Let({i \in 1..Len(sorted) :
            Less(rec.confidence_score, sorted[i].confidence_score)},
        LAMBDA behind :
    Let(IF behind = {} THEN 0 ELSE SetMax(behind), LAMBDA k :
    SubSeq(sorted, 1, k) \o <<rec>> \o SubSeq(sorted, k + 1, Len(sorted))))

\* rec put behind every record whose score is not less than its own
InsertByScore(sorted, rec) ==
    Let({i \in 1..Len(sorted) :
            ~Less(sorted[i].confidence_score, rec.confidence_score)},
        LAMBDA behind :
    Let(IF behind = {} THEN 0 ELSE SetMax(behind), LAMBDA k :
    SubSeq(sorted, 1, k) \o <<rec>> \o SubSeq(sorted, k + 1, Len(sorted))))

RECURSIVE SortFrom(_, _, _)
SortFrom(recs, i, acc) ==
    IF i > Len(recs) THEN acc
    ELSE Let(InsertByScore(acc, recs[i]), LAMBDA grown :
         SortFrom(recs, i + 1, grown))

\* the stable descending sort: records of equal score keep their order
SortByScore(recs) == Let(recs, LAMBDA rs : SortFrom(rs, 1, <<>>))

(***************************************************************************)
(* The plan: current month picks and three future months of four books.    *)
(***************************************************************************)
Min(a, b) == IF a < b THEN a ELSE b

\* s[:k]
Take(s, k) == SubSeq(s, 1, Min(k, Len(s)))

\* s[a:b], a and b counted from 0
Slice(s, a, b) == SubSeq(s, a + 1, Min(b, Len(s)))

MonthNames ==
    <<"January", "February", "March", "April", "May", "June", "July",
      "August", "September", "October", "November", "December">>

\* days of the months of a common year
DaysInMonth == <<31, 28, 31, 30, 31, 30, 31, 31, 30, 31, 30, 31>>

RECURSIVE MonthAfterDays(_, _)
\* the month reached `days` days after the first day of month m
MonthAfterDays(m, days) ==
    IF days < DaysInMonth[m] THEN m
    ELSE MonthAfterDays((m % 12) + 1, days - DaysInMonth[m])

\* (datetime.now().replace(day=1) + timedelta(days=i*31)).strftime('%B')
MonthLabel(now_month, i) == MonthNames[MonthAfterDays(now_month, i * 31)]

\* range(3): the months of a plan
MonthCount == 3

\* a faulty empty_reading_plan: range(1, 3) for range(3)
EmptyReadingPlanShort(now_month) ==
    [i \in 1..(MonthCount - 1) |->
        [month |-> MonthLabel(now_month, i), books |-> <<>>]]

\* empty_reading_plan
EmptyReadingPlan(now_month) ==
    [i \in 1..MonthCount |->
        [month |-> MonthLabel(now_month, i - 1), books |-> <<>>]]

\* 'Book from '
BookFrom ==
    <<"B", "o", "o", "k", " ", "f", "r", "o", "m", " ">>

\* the book entry made of a record: its first sample book, or a made-up title
BookEntry(rec) ==
    IF rec.sample_books # <<>>
    THEN [title |-> rec.sample_books[1].title,
          author |-> rec.name,
          explanation |-> rec.rationale,
          justbookify_link |-> rec.justbookify_link]
    ELSE [title |-> PyStr(BookFrom \o rec.name.s),
          author |-> rec.name,
          explanation |-> rec.rationale,
          justbookify_link |-> rec.justbookify_link]

\* recommendations[:3]
CurrentCount == 3

\* the entry of the "fallback current recommendations" loop
FallbackEntry(rec) ==
    [title |-> PyStr(BookFrom \o rec.name.s),
     author |-> rec.name,
     explanation |-> rec.rationale,
     justbookify_link |-> rec.justbookify_link]

\* a faulty current_recs: the title made of the name although the record
\* has sample books
CurrentRecsByName(recommendations) ==
    Let(Take(recommendations, CurrentCount), LAMBDA top :
    [i \in 1..Len(top) |-> FallbackEntry(top[i])])

\* current_recs
CurrentRecs(recommendations) ==
    Let(Take(recommendations, CurrentCount), LAMBDA top :
    Let([i \in 1..Len(top) |-> BookEntry(top[i])], LAMBDA entries :
    IF entries = <<>> /\ recommendations # <<>>
    THEN [i \in 1..Len(top) |-> FallbackEntry(top[i])]
    ELSE entries))

\* 'https://www.justbookify.com/search?q=children+books'
FallbackLink ==
    <<"h", "t", "t", "p", "s", ":", "/", "/", "w", "w", "w", ".", "j", "u",
      "s", "t", "b", "o", "o", "k", "i", "f", "y", ".", "c", "o", "m", "/",
      "s", "e", "a", "r", "c", "h", "?", "q", "=", "c", "h", "i", "l", "d",
      "r", "e", "n", "+", "b", "o", "o", "k", "s">>

\* 'Additional Children's Books'
FallbackName1 ==
    <<"A", "d", "d", "i", "t", "i", "o", "n", "a", "l", " ", "C", "h", "i",
      "l", "d", "r", "e", "n", "'", "s", " ", "B", "o", "o", "k", "s">>

\* 'Additional reading material suitable for this age group'
FallbackRationale1 ==
    <<"A", "d", "d", "i", "t", "i", "o", "n", "a", "l", " ", "r", "e", "a",
      "d", "i", "n", "g", " ", "m", "a", "t", "e", "r", "i", "a", "l", " ",
      "s", "u", "i", "t", "a", "b", "l", "e", " ", "f", "o", "r", " ", "t",
      "h", "i", "s", " ", "a", "g", "e", " ", "g", "r", "o", "u", "p">>

\* 'Additional Book 1'
FallbackTitle1 ==
    <<"A", "d", "d", "i", "t", "i", "o", "n", "a", "l", " ", "B", "o", "o",
      "k", " ", "1">>

\* 'Popular Children's Authors'
FallbackName2 ==
    <<"P", "o", "p", "u", "l", "a", "r", " ", "C", "h", "i", "l", "d", "r",
      "e", "n", "'", "s", " ", "A", "u", "t", "h", "o", "r", "s">>

\* 'Well-loved authors in children's literature'
FallbackRationale2 ==
    <<"W", "e", "l", "l", "-", "l", "o", "v", "e", "d", " ", "a", "u", "t",
      "h", "o", "r", "s", " ", "i", "n", " ", "c", "h", "i", "l", "d", "r",
      "e", "n", "'", "s", " ", "l", "i", "t", "e", "r", "a", "t", "u", "r",
      "e">>

\* 'Additional Book 2'
FallbackTitle2 ==
    <<"A", "d", "d", "i", "t", "i", "o", "n", "a", "l", " ", "B", "o", "o",
      "k", " ", "2">>

\* 'Educational Books'
FallbackName3 ==
    <<"E", "d", "u", "c", "a", "t", "i", "o", "n", "a", "l", " ", "B", "o",
      "o", "k", "s">>

\* 'Educational and engaging books for learning'
FallbackRationale3 ==
    <<"E", "d", "u", "c", "a", "t", "i", "o", "n", "a", "l", " ", "a", "n",
      "d", " ", "e", "n", "g", "a", "g", "i", "n", "g", " ", "b", "o", "o",
      "k", "s", " ", "f", "o", "r", " ", "l", "e", "a", "r", "n", "i", "n",
      "g">>

\* 'Additional Book 3'
FallbackTitle3 ==
    <<"A", "d", "d", "i", "t", "i", "o", "n", "a", "l", " ", "B", "o", "o",
      "k", " ", "3">>

FallbackRecord(name, score, rationale, title) ==
    [name |-> PyStr(name),
     confidence_score |-> PyInt(score),
     rationale |-> PyStr(rationale),
     sample_books |-> <<[title |-> PyStr(title)]>>,
     justbookify_link |-> PyStr(FallbackLink)]

fallback_recommendations ==
    << FallbackRecord(FallbackName1, 8, FallbackRationale1, FallbackTitle1),
       FallbackRecord(FallbackName2, 7, FallbackRationale2, FallbackTitle2),
       FallbackRecord(FallbackName3, 7, FallbackRationale3, FallbackTitle3) >>

total_books_needed == 12

FallbackThreshold == 6

BooksPerMonth == 4

\* a faulty duplication: the gap filled with copies of the last record
DuplicateLast(all) ==
    IF Len(all) < total_books_needed /\ all # <<>>
    THEN all \o [i \in 1..(total_books_needed - Len(all)) |-> all[Len(all)]]
    ELSE all

RECURSIVE Duplicate(_)
\* while len(all) < 12: all.extend(all[:12 - len(all)])
Duplicate(all) ==
    IF Len(all) < total_books_needed
    THEN Let(all \o Take(all, total_books_needed - Len(all)), LAMBDA longer :
         Duplicate(longer))
    ELSE all

\* a faulty all_recommendations: the fallback records added below 3
\* records, not below 6
AllRecommendationsBelowThree(recommendations) ==
    Let(IF Len(recommendations) < CurrentCount
        THEN recommendations \o fallback_recommendations
        ELSE recommendations, LAMBDA augmented :
    Let(IF Len(recommendations) < total_books_needed
        THEN Duplicate(augmented)
        ELSE recommendations, LAMBDA padded :
    Take(padded, total_books_needed)))

\* a faulty all_recommendations: the fallback records put in front
AllRecommendationsFallbackFirst(recommendations) ==
    Let(IF Len(recommendations) < FallbackThreshold
        THEN fallback_recommendations \o recommendations
        ELSE recommendations, LAMBDA augmented :
    Let(IF Len(recommendations) < total_books_needed
        THEN Duplicate(augmented)
        ELSE recommendations, LAMBDA padded :
    Take(padded, total_books_needed)))

\* all_recommendations after padding and the cut to 12
AllRecommendations(recommendations) ==
    Let(IF Len(recommendations) < FallbackThreshold
        THEN recommendations \o fallback_recommendations
        ELSE recommendations, LAMBDA augmented :
    Let(IF Len(recommendations) < total_books_needed
        THEN Duplicate(augmented)
        ELSE recommendations, LAMBDA padded :
    Take(padded, total_books_needed)))

\* 'Additional Book Recommendation'
PlaceholderTitle ==
    <<"A", "d", "d", "i", "t", "i", "o", "n", "a", "l", " ", "B", "o", "o",
      "k", " ", "R", "e", "c", "o", "m", "m", "e", "n", "d", "a", "t", "i",
      "o", "n">>

\* 'Various Authors'
PlaceholderAuthor ==
    <<"V", "a", "r", "i", "o", "u", "s", " ", "A", "u", "t", "h", "o", "r",
      "s">>

\* 'Additional reading material for this month'
PlaceholderExplanation ==
    <<"A", "d", "d", "i", "t", "i", "o", "n", "a", "l", " ", "r", "e", "a",
      "d", "i", "n", "g", " ", "m", "a", "t", "e", "r", "i", "a", "l", " ",
      "f", "o", "r", " ", "t", "h", "i", "s", " ", "m", "o", "n", "t", "h">>

\* 'Book Recommendation'
FinalTitle ==
    <<"B", "o", "o", "k", " ", "R", "e", "c", "o", "m", "m", "e", "n", "d",
      "a", "t", "i", "o", "n">>

\* 'Reading material for this month'
FinalExplanation ==
    <<"R", "e", "a", "d", "i", "n", "g", " ", "m", "a", "t", "e", "r", "i",
      "a", "l", " ", "f", "o", "r", " ", "t", "h", "i", "s", " ", "m", "o",
      "n", "t", "h">>

PlaceholderBook ==
    [title |-> PyStr(PlaceholderTitle),
     author |-> PyStr(PlaceholderAuthor),
     explanation |-> PyStr(PlaceholderExplanation),
     justbookify_link |-> PyStr(FallbackLink)]

FinalPlaceholderBook ==
    [title |-> PyStr(FinalTitle),
     author |-> PyStr(PlaceholderAuthor),
     explanation |-> PyStr(FinalExplanation),
     justbookify_link |-> PyStr(FallbackLink)]

RECURSIVE PadToFour(_, _)
\* while len(books) < 4: repeat the last book, or add the placeholder
PadToFour(books, placeholder) ==
    IF Len(books) < BooksPerMonth
    THEN Let(Append(books, IF books # <<>> THEN books[Len(books)]
                           ELSE placeholder), LAMBDA longer :
         PadToFour(longer, placeholder))
    ELSE books

\* the check repeated after the loop and in the final validation
ForceFour(books) ==
    Let(books, LAMBDA month_books :
    IF Len(month_books) # BooksPerMonth
    THEN Take(PadToFour(month_books, FinalPlaceholderBook), BooksPerMonth)
    ELSE month_books)

\* month_books of month_index (0, 1, 2)
MonthBooks(all_recommendations, month_index) ==
    Let(Slice(all_recommendations, month_index * BooksPerMonth,
              month_index * BooksPerMonth + BooksPerMonth),
        LAMBDA month_recommendations :
    Let(<<>> \o [i \in 1..Len(month_recommendations) |->
                    BookEntry(month_recommendations[i])], LAMBDA month_books :
    ForceFour(ForceFour(
        Take(PadToFour(month_books, PlaceholderBook), BooksPerMonth)))))

\* a faulty future_recs: the months cut from recommendations[3:] four at a
\* time, with no filler and no padding
FutureRecsUnpadded(recommendations, now_month) ==
    <<>> \o [m \in 1..MonthCount |->
                [month |-> MonthLabel(now_month, m - 1),
                 books |->
                     Let(Slice(recommendations,
                               CurrentCount + (m - 1) * BooksPerMonth,
                               CurrentCount + m * BooksPerMonth),
                         LAMBDA month_recommendations :
                     <<>> \o [i \in 1..Len(month_recommendations) |->
                                 BookEntry(month_recommendations[i])])]]

\* future_recs
FutureRecs(recommendations, now_month) ==
    Let(AllRecommendations(recommendations), LAMBDA all_recommendations :
    <<>> \o [m \in 1..MonthCount |->
                [month |-> MonthLabel(now_month, m - 1),
                 books |-> MonthBooks(all_recommendations, m - 1)]])

\* the parsing stage up to the save: raised is TRUE when anything in it
\* raises, which the handler answers with the empty plan
ProcessAnswer(raw_content, now_month) ==
    LET failed == [raised |-> TRUE, recommendations |-> <<>>,
                   current |-> <<>>, future |-> <<>>]
    IN  Let(LoadRecommendationsJson(raw_content), LAMBDA loaded :
        Let(Iterate(loaded.v), LAMBDA elements :
        IF ~loaded.ok \/ ~elements.ok THEN failed
        ELSE Let(CollectRecords(elements.items, 1, <<>>), LAMBDA collected :
             IF collected.raised \/ SortRaises(collected.recs) THEN failed
             ELSE Let(SortByScore(collected.recs), LAMBDA recommendations :
                  [raised |-> FALSE,
                   recommendations |-> recommendations,
                   current |-> CurrentRecs(recommendations),
                   future |-> FutureRecs(recommendations, now_month)]))))

(***************************************************************************)
(* The catalog query.  Ages are whole numbers of 1/AgeUnit years.          *)
(***************************************************************************)
AgeUnit == 2

Yr(n) == n * AgeUnit

AGE_GROUPS == <<"Below 5", "6-8", "9-10", "11-12", "13+">>

\* a faulty get_age_group: closed with `elif age >= 13`, no else branch
get_age_group_without_else(age) ==
    IF age < Yr(5) THEN "Below 5"
    ELSE IF Yr(5) <= age /\ age <= Yr(8) THEN "6-8"
    ELSE IF Yr(9) <= age /\ age <= Yr(10) THEN "9-10"
    ELSE IF Yr(11) <= age /\ age <= Yr(12) THEN "11-12"
    ELSE IF age >= Yr(13) THEN "13+"
    ELSE "None"

\* get_age_group(age)
get_age_group(age) ==
    IF age < Yr(5) THEN "Below 5"
    ELSE IF Yr(5) <= age /\ age <= Yr(8) THEN "6-8"
    ELSE IF Yr(9) <= age /\ age <= Yr(10) THEN "9-10"
    ELSE IF Yr(11) <= age /\ age <= Yr(12) THEN "11-12"
    ELSE "13+"

\* the _id of the $group stage of get_recommendation_plans_stats: nested
\* $cond over $lt 5, $lte 8, $lte 10, $lte 12
StatsAgeGroup(age) ==
    IF age < Yr(5) THEN "Below 5"
    ELSE IF age <= Yr(8) THEN "6-8"
    ELSE IF age <= Yr(10) THEN "9-10"
    ELSE IF age <= Yr(12) THEN "11-12"
    ELSE "13+"

\* a document of the books collection; has_range is FALSE for a book stored
\* without ageRange.min / ageRange.max, which no age predicate matches
Book(genres, has_range, min, max) ==
    [genres |-> genres, has_range |-> has_range, min |-> min, max |-> max]

\* {'ageRange.min': {'$lte': age}, 'ageRange.max': {'$gte': age}}
AgeMatches(book, age) ==
    book.has_range /\ book.min <= age /\ book.max >= age

\* {'genres': {'$in': selected_genres}}
GenreMatches(book, selected_genres) == book.genres \cap selected_genres # {}

RECURSIVE FindIds(_, _, _, _)
\* the positions, in storage order from i on, of the books a find() returns;
\* by_genre and by_age say which predicates the query carries
FindIds(collection, i, by_genre, by_age) ==
    IF i > Len(collection) THEN <<>>
    ELSE LET rest == FindIds(collection, i + 1, by_genre, by_age)
         IN  IF /\ by_genre.on => GenreMatches(collection[i], by_genre.genres)
                /\ by_age.on => AgeMatches(collection[i], by_age.age)
             THEN <<i>> \o rest
             ELSE rest

StrictBooks(collection, age, selected_genres) ==
    FindIds(collection, 1, [on |-> TRUE, genres |-> selected_genres],
            [on |-> TRUE, age |-> age])

AgeOnlyBooks(collection, age) ==
    FindIds(collection, 1, [on |-> FALSE, genres |-> {}],
            [on |-> TRUE, age |-> age])

AllBooks(collection) ==
    FindIds(collection, 1, [on |-> FALSE, genres |-> {}],
            [on |-> FALSE, age |-> 0])

\* a faulty get_flexible_books: no third query, the age-only books are
\* returned however few
get_flexible_books_two_tiers(collection, age, selected_genres, min_count) ==
    LET strict == StrictBooks(collection, age, selected_genres)
        age_only == AgeOnlyBooks(collection, age)
    IN  IF Len(strict) >= min_count THEN [books |-> strict, finds |-> 1]
        ELSE [books |-> age_only, finds |-> 2]

\* a faulty get_flexible_books: > for >= in the two comparisons
get_flexible_books_more_than(collection, age, selected_genres, min_count) ==
    LET strict == StrictBooks(collection, age, selected_genres)
        age_only == AgeOnlyBooks(collection, age)
    IN  IF Len(strict) > min_count THEN [books |-> strict, finds |-> 1]
        ELSE IF Len(age_only) > min_count
        THEN [books |-> age_only, finds |-> 2]
        ELSE [books |-> AllBooks(collection), finds |-> 3]

\* get_flexible_books: the books found (as positions in the collection) and
\* the number of find() calls issued
get_flexible_books(collection, age, selected_genres, min_count) ==
    LET strict == StrictBooks(collection, age, selected_genres)
        age_only == AgeOnlyBooks(collection, age)
    IN  IF Len(strict) >= min_count THEN [books |-> strict, finds |-> 1]
        ELSE IF Len(age_only) >= min_count
        THEN [books |-> age_only, finds |-> 2]
        ELSE [books |-> AllBooks(collection), finds |-> 3]

\* min_books=15, the default and the value the handler passes
DefaultMinBooks == 15

(***************************************************************************)
(* The answers the LLM gives in this model, written as json.dumps would,   *)
(* some with prose around them or a trailing comma.                        *)
(***************************************************************************)
RECURSIVE JoinWith(_, _)
JoinWith(parts, sep) ==
    IF parts = <<>> THEN <<>>
    ELSE IF Len(parts) = 1 THEN parts[1]
    ELSE parts[1] \o sep \o JoinWith(Tail(parts), sep)

Member(key, text) == Str(key) \o <<":", " ">> \o text

Obj(members) == <<"{">> \o JoinWith(members, <<",", " ">>) \o <<"}">>

Arr(elements) == <<"[">> \o JoinWith(elements, <<",", " ">>) \o <<"]">>

NumText(n) == IF n >= 10 THEN <<Digits[(n \div 10) + 1], Digits[(n % 10) + 1]>>
              ELSE <<Digits[n + 1]>>

RecText(name, score, titles, rationale) ==
    Obj(<< Member(K_name, Str(name)),
           Member(K_likely_score, NumText(score)),
           Member(K_books, Arr([i \in 1..Len(titles) |-> Str(titles[i])])),
           Member(K_rationale, Str(rationale)) >>)

N_Zed == <<"Z", "e", "d", " ", "S", "a", "g", "a">>
N_Harry ==
    <<"H", "a", "r", "r", "y", " ", "P", "o", "t", "t", "e", "r", " ", "S",
      "e", "r", "i", "e", "s">>
N_Dog == <<"D", "o", "g", " ", "M", "a", "n", " ", "C", "o", "m", "i", "c", "s">>

R_Zed == RecText(N_Zed, 9, << <<"Z", "e", "d", " ", "1">>,
                             <<"Z", "e", "d", " ", "2">> >>,
                 <<"f", "i", "t", "s">>)
R_Harry == RecText(N_Harry, 7, << <<"H", "P", "1">> >>, <<"m", "a", "g", "i", "c">>)
R_Dog == RecText(N_Dog, 9, << <<"D", "M">> >>, <<"f", "u", "n">>)

\* the i-th of a run of distinct records, scores going round 7..10
R_Nth(i) ==
    RecText(<<"S">> \o NumText(i), 7 + ((3 * i) % 4),
            << <<"T">> \o NumText(i) >>, <<"r">> \o NumText(i))

ArrOfNth(n) == Arr([i \in 1..n |-> R_Nth(i)])

Prose == <<"S", "o", "r", "r", "y", ",", " ", "n", "o", " ", "l", "i", "s", "t", ".">>

LLMAnswers ==
    << Prose,
       <<"{", "}">>,
       Obj(<<Member(K_name, Str(<<"A">>))>>),
       <<"5">>,
       Str(<<"a", "b", "c">>),
       Str(<<>>),
       <<"n", "u", "l", "l">>,
       <<"[", "]">>,
       Arr(<<R_Zed>>),
       <<"H", "e", "r", "e", ":", "\n">> \o Arr(<<R_Harry, R_Zed>>)
           \o <<"\n", "E", "n", "j", "o", "y">>,
       <<"[">> \o R_Zed \o <<",", " ">> \o R_Harry \o <<",", " ">> \o R_Dog
           \o <<",", "\n", "]">>,
       Arr(<<R_Zed, <<"5">> >>),
       ArrOfNth(FallbackThreshold),
       ArrOfNth(total_books_needed) >>

\* the text contains no JSON array at all
NoJsonArray(text) == \A i \in 1..Len(text) : text[i] # "["

(***************************************************************************)
(* Requests.                                                               *)
(***************************************************************************)
required_fields ==
    {"name", "age", "selectedGenres", "selectedInterests",
     "nonFictionInterests", "bookSeries", "parentEmail", "parentPhone"}

\* an age as a request carries it: t is its Python type, h its value in
\* 1/AgeUnit years when it is a number
AgeValue(type, units) == [t |-> type, h |-> units]

\* selectedGenres as a request carries it
GenresValue(type, genres) == [t |-> type, v |-> genres]

RequestData(fields, age, genres) ==
    [fields |-> fields, age |-> age, selectedGenres |-> genres]

AgeChoices ==
    { AgeValue("int", Yr(9)), AgeValue("float", Yr(8) + 1),
      AgeValue("int", 0 - Yr(1)), AgeValue("str", 0) }

GenresChoices ==
    { GenresValue("list", {"Fantasy"}), GenresValue("list", {}),
      GenresValue("str", {}) }

ValidData ==
    RequestData(required_fields, AgeValue("int", Yr(9)),
                GenresValue("list", {"Fantasy"}))

DataChoices ==
    {RequestData(required_fields, a, g) : a \in AgeChoices, g \in GenresChoices}
    \cup {RequestData(required_fields \ {f}, ValidData.age,
                      ValidData.selectedGenres) : f \in required_fields}
    \cup {RequestData({}, ValidData.age, ValidData.selectedGenres)}

\* userId: "" when absent, "bad" no ObjectId, "u1" and "u2" valid ObjectIds
UserIds == {"", "bad", "u1", "u2"}

ObjectIdIsValid(user_id) == user_id \in {"u1", "u2"}

\* request.json: None, a JSON array, or an object
RequestBodies ==
    {[kind |-> k, userId |-> "", data |-> RequestData({}, ValidData.age,
                                                      ValidData.selectedGenres)]
        : k \in {"none", "list"}}
    \cup {[kind |-> "object", userId |-> u, data |-> d]
            : u \in UserIds, d \in DataChoices}

QuizUserDocs ==
    { ValidData,
      RequestData(required_fields \ {"bookSeries"}, ValidData.age,
                  ValidData.selectedGenres),
      RequestData(required_fields, AgeValue("int", 0 - Yr(1)),
                  ValidData.selectedGenres) }

FantasyBook == Book({"Fantasy"}, TRUE, Yr(8), Yr(12))
MysteryBook == Book({"Mystery"}, TRUE, Yr(8), Yr(12))
TeenBook == Book({"Fantasy", "Mystery"}, TRUE, Yr(13), Yr(16))
UnrangedBook == Book({"Fantasy"}, FALSE, 0, 0)

\* the catalogs the handler runs on: none, a small one, and one in which
\* the strict filter alone reaches DefaultMinBooks
HandlerCatalogs ==
    { <<>>,
      <<MysteryBook, TeenBook>>,
      [i \in 1..(DefaultMinBooks + 1) |->
          IF i <= DefaultMinBooks THEN FantasyBook ELSE MysteryBook] }

NowMonths == {2, 12}

(***************************************************************************)
(* Responses.                                                              *)
(***************************************************************************)
Response(status, unhandled, has_plan, error, current, future, recs, id) ==
    [status |-> status, unhandled |-> unhandled, has_plan |-> has_plan,
     error |-> error, current |-> current, future |-> future,
     recommendations |-> recs, planId |-> id]

NoResponse == Response(0, FALSE, FALSE, "", <<>>, <<>>, <<>>, 0)

\* jsonify({'error': ...}), 400
BadRequest(error) == Response(400, FALSE, FALSE, error, <<>>, <<>>, <<>>, 0)

\* jsonify({'current': [], 'future': empty_reading_plan,
\*          'recommendations': [], 'error': ...})
EmptyPlan(error, month) ==
    Response(200, FALSE, TRUE, error, <<>>, EmptyReadingPlan(month), <<>>, 0)

\* an exception leaves the view function: the framework answers 500
Unhandled == Response(500, TRUE, FALSE, "", <<>>, <<>>, <<>>, 0)

\* the outermost except clause: it reads empty_reading_plan, a local that
\* is unbound until the required fields have been checked
OuterExcept(bound, month) ==
    IF bound THEN EmptyPlan("Error in generate_recommendation_plan", month)
    ELSE Unhandled

Call(op, arg) == [op |-> op, arg |-> arg]

(***************************************************************************)
(* The handler generate_recommendation_plan as a state machine: one step   *)
(* per stretch of code between two external calls.                         *)
(***************************************************************************)
VARIABLES
    pc,                     \* where the handler stands
    request,                \* request.json
    data,                   \* data: the body, or the quiz user read for it
    now_month,              \* the month of datetime.now()
    empty_plan_bound,       \* empty_reading_plan has been assigned
    books_collection,
    quiz_users_collection,
    recommendations_collection,  \* age group -> its document's books
    recommendation_plans_collection,
    min_books,              \* the min_books argument of get_flexible_books
    potential_books,
    llm_choice,             \* which of LLMAnswers the LLM gave (0: none yet)
    recommendations,
    current_recs,
    future_recs,
    calls,                  \* the external calls issued so far, in order
    response,
    series_name,            \* a name given to the link synthesis on its own
    link_terms,             \* the search terms of its successive passes
    parse_case,             \* an answer given to the parsing stage on its own
    allocation,             \* all_recommendations, the padding loop on its own
    quiz_responses_collection,
    in_flight,              \* the save_book_series_response requests under way
    messages                \* what format_book_recommendations_messages made

vars ==
    <<pc, request, data, now_month, empty_plan_bound, books_collection,
      quiz_users_collection, recommendations_collection,
      recommendation_plans_collection, min_books,
      potential_books, llm_choice, recommendations, current_recs,
      future_recs, calls, response, series_name, link_terms, parse_case,
      allocation, quiz_responses_collection, in_flight, messages>>

\* the inputs and results of the functions run on their own
standalone == <<allocation, quiz_responses_collection, in_flight, messages>>

NoStandalone ==
    /\ allocation = <<>>
    /\ quiz_responses_collection = <<>>
    /\ in_flight = <<>>
    /\ messages = <<>>

probes == <<series_name, link_terms, parse_case, standalone>>

NoCase == [elements |-> <<>>, comma |-> 0]

NoProbes ==
    /\ series_name = <<>>
    /\ link_terms = <<>>
    /\ parse_case = NoCase
    /\ NoStandalone

stores ==
    <<books_collection, quiz_users_collection, recommendations_collection>>

\* initialize_recommendations(): a document with no books for every age
\* group
InitialRecommendations ==
    [g \in {AGE_GROUPS[k] : k \in 1..Len(AGE_GROUPS)} |-> <<>>]

locals ==
    <<potential_books, llm_choice, recommendations, current_recs, future_recs>>

NoRequest == [kind |-> "", userId |-> "", data |-> RequestData({}, ValidData.age,
                                                              ValidData.selectedGenres)]

\* what the parsing stage makes of each answer, computed once
ProcessTable ==
    [i \in 1..Len(LLMAnswers) |->
        [m \in NowMonths |-> ProcessAnswer(LLMAnswers[i], m)]]

raw_content == IF llm_choice = 0 THEN <<>> ELSE LLMAnswers[llm_choice]

Init ==
    /\ pc = "start"
    /\ request = NoRequest
    /\ data = NoRequest.data
    /\ now_month \in NowMonths
    /\ empty_plan_bound = FALSE
    /\ books_collection \in HandlerCatalogs
    /\ quiz_users_collection \in [{"u1"} -> QuizUserDocs]
    /\ recommendations_collection = InitialRecommendations
    /\ recommendation_plans_collection = <<>>
    /\ min_books = DefaultMinBooks
    /\ potential_books = <<>>
    /\ llm_choice = 0
    /\ recommendations = <<>>
    /\ current_recs = <<>>
    /\ future_recs = <<>>
    /\ calls = <<>>
    /\ response = NoResponse
    /\ NoProbes

\* the view function ends with this response
Return(resp) ==
    /\ pc' = "done"
    /\ response' = resp

\* data = request.json; user_id = data.get('userId')
Receive(body) ==
    /\ pc = "start"
    /\ request' = body
    /\ data' = body.data
    /\ IF body.kind # "object"
       THEN Return(OuterExcept(empty_plan_bound, now_month))
       ELSE /\ pc' = IF body.userId # "" /\ ObjectIdIsValid(body.userId)
                     THEN "lookup" ELSE "validate"
            /\ UNCHANGED response
    /\ UNCHANGED <<now_month, empty_plan_bound, stores, probes,
                   recommendation_plans_collection, min_books, locals, calls>>

\* quiz_user = quiz_users_collection.find_one({'_id': ObjectId(user_id)})
QuizLookup(raises) ==
    /\ pc = "lookup"
    /\ calls' = Append(calls, Call("quiz_users.find_one", request.userId))
    /\ IF raises
       THEN /\ Return(OuterExcept(empty_plan_bound, now_month))
            /\ UNCHANGED data
       ELSE /\ pc' = "validate"
            /\ data' = IF request.userId \in DOMAIN quiz_users_collection
                       THEN quiz_users_collection[request.userId]
                       ELSE data
            /\ UNCHANGED response
    /\ UNCHANGED <<request, now_month, empty_plan_bound, stores, probes,
                   recommendation_plans_collection, min_books, locals>>

\* isinstance(age, (int, float)) and not age < 0
AgeIsValid(age) == age.t \in {"int", "float", "bool"} /\ ~(age.h < 0)

\* isinstance(selected_genres, list) and selected_genres
GenresAreValid(genres) == genres.t = "list" /\ genres.v # {}

\* a faulty Validate: the check of age left out
ValidateWithoutAge ==
    /\ pc = "validate"
    /\ IF ~(required_fields \subseteq data.fields)
       THEN /\ Return(BadRequest("Missing required fields"))
            /\ UNCHANGED empty_plan_bound
       ELSE /\ empty_plan_bound' = TRUE
            /\ IF ~GenresAreValid(data.selectedGenres)
               THEN Return(BadRequest("Selected genres must be a non-empty list"))
               ELSE /\ pc' = "recdoc"
                    /\ UNCHANGED response
    /\ UNCHANGED <<request, data, now_month, stores, probes,
                   recommendation_plans_collection, min_books, locals, calls>>

\* the checks of the required fields, of age and of selectedGenres
Validate ==
    /\ pc = "validate"
    /\ IF ~(required_fields \subseteq data.fields)
       THEN /\ Return(BadRequest("Missing required fields"))
            /\ UNCHANGED empty_plan_bound
       ELSE /\ empty_plan_bound' = TRUE
            /\ IF ~AgeIsValid(data.age)
               THEN Return(BadRequest("Invalid age value"))
               ELSE IF ~GenresAreValid(data.selectedGenres)
               THEN Return(BadRequest("Selected genres must be a non-empty list"))
               ELSE /\ pc' = "recdoc"
                    /\ UNCHANGED response
    /\ UNCHANGED <<request, data, now_month, stores, probes,
                   recommendation_plans_collection, min_books, locals, calls>>

\* rec_doc = recommendations_collection.find_one({'age_group': age_group})
FetchRecDoc(raises) ==
    /\ pc = "recdoc"
    /\ calls' = Append(calls, Call("recommendations.find_one",
                                   get_age_group(data.age.h)))
    /\ IF raises
       THEN Return(OuterExcept(empty_plan_bound, now_month))
       ELSE /\ pc' = "books"
            /\ UNCHANGED response
    /\ UNCHANGED <<request, data, now_month, empty_plan_bound, stores, probes,
                   recommendation_plans_collection, min_books, locals>>

\* a faulty QueryBooks: `if not potential_books` left out
QueryBooksUnchecked(raises) ==
    LET found == get_flexible_books(books_collection, data.age.h,
                                    data.selectedGenres.v, min_books)
        issued == IF raises THEN 1 ELSE found.finds
    IN  /\ pc = "books"
        /\ calls' = calls \o [i \in 1..issued |-> Call("books.find", "")]
        /\ IF raises
           THEN /\ Return(OuterExcept(empty_plan_bound, now_month))
                /\ UNCHANGED potential_books
           ELSE /\ potential_books' = found.books
                /\ pc' = "llm"
                /\ UNCHANGED response
        /\ UNCHANGED <<request, data, now_month, empty_plan_bound, stores, probes,
                       recommendation_plans_collection, min_books, llm_choice,
                       recommendations, current_recs, future_recs>>

\* potential_books = get_flexible_books(age, selected_genres, min_books=15)
QueryBooks(raises) ==
    LET found == get_flexible_books(books_collection, data.age.h,
                                    data.selectedGenres.v, min_books)
        issued == IF raises THEN 1 ELSE found.finds
    IN  /\ pc = "books"
        /\ calls' = calls \o [i \in 1..issued |-> Call("books.find", "")]
        /\ IF raises
           THEN /\ Return(OuterExcept(empty_plan_bound, now_month))
                /\ UNCHANGED potential_books
           ELSE /\ potential_books' = found.books
                /\ IF found.books = <<>>
                   THEN Return(EmptyPlan("No books found in database", now_month))
                   ELSE /\ pc' = "llm"
                        /\ UNCHANGED response
        /\ UNCHANGED <<request, data, now_month, empty_plan_bound, stores, probes,
                       recommendation_plans_collection, min_books, llm_choice,
                       recommendations, current_recs, future_recs>>

\* a faulty CallLLM: the call outside its try block, so that its exception
\* reaches the outermost except clause
CallLLMUncaught(answer) ==
    /\ pc = "llm"
    /\ calls' = Append(calls, Call("openai.ChatCompletion.create", ""))
    /\ IF answer = 0
       THEN /\ Return(OuterExcept(empty_plan_bound, now_month))
            /\ UNCHANGED llm_choice
       ELSE /\ llm_choice' = answer
            /\ pc' = "parse"
            /\ UNCHANGED response
    /\ UNCHANGED <<request, data, now_month, empty_plan_bound, stores, probes,
                   recommendation_plans_collection, min_books, potential_books,
                   recommendations, current_recs, future_recs>>

\* response = openai.ChatCompletion.create(...): answer 0 is an exception
CallLLM(answer) ==
    /\ pc = "llm"
    /\ calls' = Append(calls, Call("openai.ChatCompletion.create", ""))
    /\ IF answer = 0
       THEN /\ Return(EmptyPlan("OpenAI API error", now_month))
            /\ UNCHANGED llm_choice
       ELSE /\ llm_choice' = answer
            /\ pc' = "parse"
            /\ UNCHANGED response
    /\ UNCHANGED <<request, data, now_month, empty_plan_bound, stores, probes,
                   recommendation_plans_collection, min_books, potential_books,
                   recommendations, current_recs, future_recs>>

\* from raw_content to future_recs
Process ==
    LET made == ProcessTable[llm_choice][now_month]
    IN  /\ pc = "parse"
        /\ IF made.raised
           THEN /\ Return(EmptyPlan("Error processing recommendations", now_month))
                /\ UNCHANGED <<recommendations, current_recs, future_recs>>
           ELSE /\ recommendations' = made.recommendations
                /\ current_recs' = made.current
                /\ future_recs' = made.future
                /\ pc' = "save"
                /\ UNCHANGED response
        /\ UNCHANGED <<request, data, now_month, empty_plan_bound, stores, probes,
                       recommendation_plans_collection, min_books,
                       potential_books, llm_choice, calls>>

\* a faulty plan_data: currentRecommendations left empty
PlanDataWithoutCurrent ==
    [age |-> data.age, selectedGenres |-> data.selectedGenres,
     recommendations |-> recommendations,
     currentRecommendations |-> <<>>,
     futureRecommendations |-> future_recs, status |-> "active"]

\* plan_data
PlanData ==
    [age |-> data.age, selectedGenres |-> data.selectedGenres,
     recommendations |-> recommendations,
     currentRecommendations |-> current_recs,
     futureRecommendations |-> future_recs, status |-> "active"]

\* a faulty Save: a failed insert answered like a failed parsing stage
SaveOrNothing(raises) ==
    /\ pc = "save"
    /\ calls' = Append(calls, Call("recommendation_plans.insert_one", ""))
    /\ IF raises
       THEN /\ Return(EmptyPlan("Error processing recommendations", now_month))
            /\ UNCHANGED recommendation_plans_collection
       ELSE /\ recommendation_plans_collection' =
                   Append(recommendation_plans_collection, PlanData)
            /\ Return(Response(200, FALSE, TRUE, "", current_recs, future_recs,
                               recommendations,
                               Len(recommendation_plans_collection) + 1))
    /\ UNCHANGED <<request, data, now_month, empty_plan_bound, stores, probes,
                   min_books, locals>>

\* result = recommendation_plans_collection.insert_one(plan_data)
Save(raises) ==
    /\ pc = "save"
    /\ calls' = Append(calls, Call("recommendation_plans.insert_one", ""))
    /\ IF raises
       THEN /\ Return(Response(200, FALSE, TRUE,
                               "Recommendations generated but failed to save",
                               current_recs, future_recs, recommendations, 0))
            /\ UNCHANGED recommendation_plans_collection
       ELSE /\ recommendation_plans_collection' =
                   Append(recommendation_plans_collection, PlanData)
            /\ Return(Response(200, FALSE, TRUE, "", current_recs, future_recs,
                               recommendations,
                               Len(recommendation_plans_collection) + 1))
    /\ UNCHANGED <<request, data, now_month, empty_plan_bound, stores, probes,
                   min_books, locals>>

Next ==
    \/ \E body \in RequestBodies : Receive(body)
    \/ \E raises \in BOOLEAN : QuizLookup(raises)
    \/ Validate
    \/ \E raises \in BOOLEAN : FetchRecDoc(raises)
    \/ \E raises \in BOOLEAN : QueryBooks(raises)
    \/ \E answer \in 0..Len(LLMAnswers) : CallLLM(answer)
    \/ Process
    \/ \E raises \in BOOLEAN : Save(raises)

Spec == Init /\ [][Next]_vars

(***************************************************************************)
(* get_flexible_books on its own: every small catalog, a few ages and      *)
(* genre lists and every min_books up to MaxMinBooks, and the catalog of   *)
(* 20 Fantasy books and 5 others queried with min_books = 15.              *)
(***************************************************************************)
MaxCatalog == 3

MaxMinBooks == 4

BookKinds == {FantasyBook, MysteryBook, TeenBook, UnrangedBook}

SmallCatalogs ==
    UNION {[1..n -> BookKinds] : n \in 0..MaxCatalog}

FlexAges ==
    { AgeValue("int", Yr(9)), AgeValue("float", Yr(8) + 1),
      AgeValue("int", Yr(14)) }

FlexGenres == { {"Fantasy"}, {"Fantasy", "Mystery"}, {"Poetry"} }

ScenarioFantasyCount == 20
ScenarioOtherCount == 5

\* 20 Fantasy books for ages 8 to 12 and 5 books of another genre in range
ScenarioCatalog ==
    [i \in 1..(ScenarioFantasyCount + ScenarioOtherCount) |->
        IF i <= ScenarioFantasyCount THEN FantasyBook ELSE MysteryBook]

IdleHandler ==
    /\ request = NoRequest
    /\ now_month \in NowMonths
    /\ empty_plan_bound = FALSE
    /\ quiz_users_collection = [u \in {"u1"} |-> ValidData]
    /\ recommendations_collection = InitialRecommendations
    /\ recommendation_plans_collection = <<>>
    /\ llm_choice = 0
    /\ calls = <<>>
    /\ response = NoResponse

InitFlex ==
    /\ pc = "flex"
    /\ IdleHandler
    /\ NoProbes
    /\ \/ /\ books_collection \in SmallCatalogs
          /\ min_books \in 0..MaxMinBooks
          /\ \E a \in FlexAges, g \in FlexGenres :
                data = RequestData(required_fields, a, GenresValue("list", g))
       \/ /\ books_collection = ScenarioCatalog
          /\ min_books = DefaultMinBooks
          /\ data = ValidData
    /\ potential_books = <<>>
    /\ recommendations = <<>>
    /\ current_recs = <<>>
    /\ future_recs = <<>>

\* potential_books = get_flexible_books(age, selected_genres, min_books)
FlexQuery ==
    /\ pc = "flex"
    /\ potential_books' =
           get_flexible_books(books_collection, data.age.h,
                              data.selectedGenres.v, min_books).books
    /\ pc' = "done"
    /\ UNCHANGED <<request, data, now_month, empty_plan_bound, stores, probes,
                   recommendation_plans_collection, min_books, llm_choice,
                   recommendations, current_recs, future_recs, calls, response>>

NextFlex == FlexQuery

SpecFlex == InitFlex /\ [][NextFlex]_vars

(***************************************************************************)
(* The allocation on its own: ranked lists of 0 to MaxRecs parsed records. *)
(***************************************************************************)
MaxRecs == 30

MaxStride == 3

\* the record parsing makes of the i-th element of an answer; every
\* stride-th element lists two books
ParsedRecord(i, stride) ==
    RecordOf(PyDict(<<
        Item(K_name, PyStr(<<"S">> \o NumText(i))),
        Item(K_likely_score, PyInt(10 - ((i - 1) \div 4))),
        Item(K_books,
             PyList(IF i % stride = 0
                    THEN << Item(<<>>, PyStr(<<"T">> \o NumText(i))),
                            Item(<<>>, PyStr(<<"U">> \o NumText(i))) >>
                    ELSE << Item(<<>>, PyStr(<<"T">> \o NumText(i))) >>)),
        Item(K_rationale, PyStr(<<"r">> \o NumText(i))) >>)).rec

RankedLists ==
    {[i \in 1..n |-> ParsedRecord(i, stride)] :
        n \in 0..MaxRecs, stride \in 1..MaxStride}

InitAlloc ==
    /\ pc = "allocate"
    /\ IdleHandler
    /\ NoProbes
    /\ books_collection = <<>>
    /\ min_books = DefaultMinBooks
    /\ data = ValidData
    /\ potential_books = <<>>
    /\ recommendations \in RankedLists
    /\ current_recs = <<>>
    /\ future_recs = <<>>

\* current_recs and future_recs from the ranked recommendations
Allocate ==
    /\ pc = "allocate"
    /\ current_recs' = CurrentRecs(recommendations)
    /\ future_recs' = FutureRecs(recommendations, now_month)
    /\ pc' = "done"
    /\ UNCHANGED <<request, data, now_month, empty_plan_bound, stores, probes,
                   recommendation_plans_collection, min_books,
                   potential_books, llm_choice, recommendations, calls,
                   response>>

NextAlloc == Allocate

SpecAlloc == InitAlloc /\ [][NextAlloc]_vars

(***************************************************************************)
(* The parsing stage on its own: answers that are arrays of one to         *)
(* MaxElements elements of the kinds below, written as json.dumps would,   *)
(* some with one trailing comma.                                           *)
(***************************************************************************)
MaxElements == 3

\* the kinds of element: records with the scores 9, 7 and 11, without a
\* score, with a rationale that holds the characters ,] and elements that
\* lack a name or books, and the number 5
ElementKinds ==
    {"good9", "good7", "good11", "noscore", "commas", "noname", "emptyname",
     "nobooks", "emptybooks", "nullbooks", "number"}

\* where the one trailing comma stands: 0 nowhere, 1 before the } of the
\* first element, 2 before the ] of its books, 3 before the last ]
CommaPlaces == 0..3

ElementName(i) == <<"S">> \o NumText(i)

ElementTitle(i) == <<"T">> \o NumText(i)

ElementRationale(kind, i) ==
    IF kind = "commas" THEN <<"a", ",", "]", "b">> ELSE <<"r">> \o NumText(i)

ElementScore(kind) ==
    CASE kind = "good7" -> 7
      [] kind = "good11" -> 11
      [] OTHER -> 9

TrailingComma(on) == IF on THEN <<",">> ELSE <<>>

\* the text of the i-th element
ElementText(kind, i, comma) ==
    IF kind = "number" THEN <<"5">>
    ELSE
    LET name == CASE kind = "noname" -> <<>>
                  [] kind = "emptyname" -> <<Member(K_name, Str(<<>>))>>
                  [] OTHER -> <<Member(K_name, Str(ElementName(i)))>>
        score == IF kind = "noscore" THEN <<>>
                 ELSE <<Member(K_likely_score, NumText(ElementScore(kind)))>>
        rationale == <<Member(K_rationale, Str(ElementRationale(kind, i)))>>
        books == CASE kind = "nobooks" -> <<>>
                   [] kind = "emptybooks" -> <<Member(K_books, <<"[", "]">>)>>
                   [] kind = "nullbooks" ->
                        <<Member(K_books, <<"n", "u", "l", "l">>)>>
                   [] OTHER ->
                        <<Member(K_books,
                                 <<"[">> \o Str(ElementTitle(i))
                                 \o TrailingComma(comma = 2) \o <<"]">>)>>
    IN  <<"{">> \o JoinWith(name \o score \o rationale \o books, <<",", " ">>)
        \o TrailingComma(comma = 1) \o <<"}">>

\* the text of the answer
CaseText(case) ==
    <<"[">>
    \o JoinWith([i \in 1..Len(case.elements) |->
                    ElementText(case.elements[i], i,
                                IF i = 1 THEN case.comma ELSE 0)],
                <<",", " ">>)
    \o TrailingComma(case.comma = 3) \o <<"]">>

\* the kinds of element with a non-empty name and a non-empty books list
KeptKinds == {"good9", "good7", "good11", "noscore", "commas"}

\* a trailing comma is put in arrays of such elements only
CommaFits(elements, comma) ==
    comma # 0 => \A i \in 1..Len(elements) : elements[i] \in KeptKinds

\* the arrays: at most one element of another kind in each
ElementLists ==
    {elements \in UNION {[1..n -> ElementKinds] : n \in 1..MaxElements} :
        Cardinality({i \in 1..Len(elements) : elements[i] \notin KeptKinds}) <= 1}

ParseCases ==
    {[elements |-> elements, comma |-> comma] :
        elements \in ElementLists, comma \in CommaPlaces}

\* the loop over recommendations_json: the records in the order they are
\* appended, or raised
CollectAnswer(text) ==
    Let(LoadRecommendationsJson(text), LAMBDA loaded :
    Let(Iterate(loaded.v), LAMBDA elements :
    IF ~loaded.ok \/ ~elements.ok THEN [raised |-> TRUE, recs |-> <<>>]
    ELSE CollectRecords(elements.items, 1, <<>>)))

InitParse ==
    /\ pc = "collect"
    /\ IdleHandler
    /\ books_collection = <<>>
    /\ min_books = DefaultMinBooks
    /\ data = ValidData
    /\ potential_books = <<>>
    /\ recommendations = <<>>
    /\ current_recs = <<>>
    /\ future_recs = <<>>
    /\ series_name = <<>>
    /\ link_terms = <<>>
    /\ parse_case \in {c \in ParseCases : CommaFits(c.elements, c.comma)}
    /\ NoStandalone

ParseFrame ==
    UNCHANGED <<request, data, now_month, empty_plan_bound, stores, probes,
                recommendation_plans_collection, min_books, potential_books,
                llm_choice, current_recs, future_recs, calls>>

\* from raw_content to the end of the loop over recommendations_json
Collect ==
    LET made == CollectAnswer(CaseText(parse_case))
    IN  /\ pc = "collect"
        /\ IF made.raised
           THEN /\ Return(EmptyPlan("Error processing recommendations", now_month))
                /\ UNCHANGED recommendations
           ELSE /\ recommendations' = made.recs
                /\ pc' = "sort"
                /\ UNCHANGED response
        /\ ParseFrame

\* recommendations.sort(key=lambda x: x['confidence_score'], reverse=True)
Sort ==
    /\ pc = "sort"
    /\ IF SortRaises(recommendations)
       THEN /\ Return(EmptyPlan("Error processing recommendations", now_month))
            /\ UNCHANGED recommendations
       ELSE /\ recommendations' = SortByScore(recommendations)
            /\ pc' = "sorted"
            /\ UNCHANGED response
    /\ ParseFrame

NextParse == Collect \/ Sort

SpecParse == InitParse /\ [][NextParse]_vars

(***************************************************************************)
(* The link synthesis on its own: the search term of a name, and the terms *)
(* of further passes over its own output.                                  *)
(***************************************************************************)
MaxNameParts == 3

MaxPasses == 3

\* 'The Mysteries Series Collection'
N_MysteriesCollection ==
    <<"T", "h", "e", " ", "M", "y", "s", "t", "e", "r", "i", "e", "s",
      " ", "S", "e", "r", "i", "e", "s", " ", "C", "o", "l", "l", "e",
      "c", "t", "i", "o", "n">>

\* 'Mysteries Series'
N_Mysteries ==
    <<"M", "y", "s", "t", "e", "r", "i", "e", "s", " ", "S", "e", "r",
      "i", "e", "s">>

\* a name in which 'series' stands inside 'series' twice over
N_Nested ==
    <<"x", "s", "e", "s", "e", "s", "e", "r", "i", "e", "s", "r", "i",
      "e", "s", "r", "i", "e", "s">>

NameParts ==
    { <<"x">>, <<" ">>, <<"s", "e">>, <<"r", "i", "e", "s">>, W_series,
      <<"B", "o", "o", "k", "s">> }

RECURSIVE Concat(_)
Concat(parts) ==
    IF parts = <<>> THEN <<>> ELSE Head(parts) \o Concat(Tail(parts))

LinkNames ==
    {Concat(parts) :
        parts \in UNION {[1..n -> NameParts] : n \in 0..MaxNameParts}}
    \cup {N_MysteriesCollection, N_Mysteries, N_Nested, N_Harry, N_Dog}

InitLink ==
    /\ pc = "link"
    /\ IdleHandler
    /\ books_collection = <<>>
    /\ min_books = DefaultMinBooks
    /\ data = ValidData
    /\ potential_books = <<>>
    /\ recommendations = <<>>
    /\ current_recs = <<>>
    /\ future_recs = <<>>
    /\ series_name \in LinkNames
    /\ link_terms = <<>>
    /\ parse_case = NoCase
    /\ NoStandalone

\* one pass of the normalisation: over series_name first, then over the
\* term of the pass before
LinkPass ==
    /\ pc = "link"
    /\ link_terms' =
           Append(link_terms,
                  SearchTerm(IF link_terms = <<>> THEN series_name
                             ELSE link_terms[Len(link_terms)]))
    /\ pc' = IF Len(link_terms) + 1 >= MaxPasses THEN "done" ELSE "link"
    /\ UNCHANGED <<request, data, now_month, empty_plan_bound, stores,
                   recommendation_plans_collection, min_books, locals, calls,
                   response, series_name, parse_case, standalone>>

NextLink == LinkPass

SpecLink == InitLink /\ [][NextLink]_vars

(***************************************************************************)
(* The age-group lookup on its own: the handler past validation, for every *)
(* age validation lets through, in steps of 1/AgeUnit year.                *)
(***************************************************************************)
MaxAge == 14

\* ages validation accepts: int or float, not negative
AcceptedAges ==
    {AgeValue("float", h) : h \in 0..Yr(MaxAge)}
    \cup {AgeValue("int", Yr(n)) : n \in 0..MaxAge}

InitAge ==
    /\ pc = "recdoc"
    /\ IdleHandler
    /\ NoProbes
    /\ books_collection = <<>>
    /\ min_books = DefaultMinBooks
    /\ data \in {RequestData(required_fields, a, ValidData.selectedGenres) :
                    a \in AcceptedAges}
    /\ potential_books = <<>>
    /\ recommendations = <<>>
    /\ current_recs = <<>>
    /\ future_recs = <<>>

NextAge == \E raises \in BOOLEAN : FetchRecDoc(raises)

SpecAge == InitAge /\ [][NextAge]_vars

(***************************************************************************)
(* The quiz endpoints.  quiz_users_collection is here the sequence of the  *)
(* documents inserted so far, the n-th of them under _id n; of a document  *)
(* the model keeps status, quizProgress and bookSeries.                    *)
(***************************************************************************)
MaxQuizUsers == 1

StepFlags ==
    {"parentConsent", "basicInfo", "parentReading", "genres", "interests",
     "bookSeries"}

ProgressKeys == StepFlags \cup {"completed"}

\* the keys of a $set, as paths: a field of the document, and
\* 'quizProgress.<flag>'
Field(name) == <<name>>

ProgressPath(flag) == <<"quizProgress", flag>>

\* user_data of save_parent_consent
NewQuizUser ==
    [status |-> "consent_given",
     quizProgress |-> [k \in ProgressKeys |-> k = "parentConsent"],
     bookSeries |-> <<>>]

\* one field of a $set applied to a document; a field the model does not
\* keep leaves it as it is
SetField(doc, key, value) ==
    CASE key = Field("status") -> [doc EXCEPT !.status = value]
      [] key = Field("bookSeries") -> [doc EXCEPT !.bookSeries = value]
      [] key \in {ProgressPath(k) : k \in ProgressKeys} ->
            [doc EXCEPT !.quizProgress[key[2]] = value]
      [] OTHER -> doc

\* update_data as the sequence of its items: a later item of a key
\* replaces an earlier one, as the assignment to the dict does
RECURSIVE ApplySet(_, _)
ApplySet(doc, update_data) ==
    IF update_data = <<>> THEN doc
    ELSE ApplySet(SetField(doc, update_data[1][1], update_data[1][2]),
                  Tail(update_data))

\* the user ids a request can carry: 0 stands for a string that is no
\* ObjectId, the others are ObjectIds
ObjectIds == 1..MaxQuizUsers
QuizUserIds == {0} \cup ObjectIds

\* quiz_users_collection.update_one({'_id': ...}, {'$set': update_data})
UpdateOne(collection, user_id, update_data) ==
    IF user_id \in DOMAIN collection
    THEN [collection EXCEPT ![user_id] = ApplySet(@, update_data)]
    ELSE collection

\* result.modified_count
ModifiedCount(collection, user_id) ==
    IF user_id \in DOMAIN collection THEN 1 ELSE 0

QuizAnswer(status, error) ==
    Response(status, FALSE, FALSE, error, <<>>, <<>>, <<>>, 0)

QuizFrame ==
    UNCHANGED <<pc, request, data, now_month, empty_plan_bound,
                books_collection, recommendations_collection,
                recommendation_plans_collection, min_books, locals, calls,
                probes>>

\* the tail shared by the update endpoints: update_one, then 404 when
\* nothing was modified
UpdateQuizUser(user_id, update_data) ==
    IF user_id \notin ObjectIds
    THEN /\ response' = QuizAnswer(400, "Invalid user ID")
         /\ UNCHANGED quiz_users_collection
    ELSE /\ quiz_users_collection' =
                UpdateOne(quiz_users_collection, user_id, update_data)
         /\ response' =
                IF ModifiedCount(quiz_users_collection, user_id) = 0
                THEN QuizAnswer(404, "User not found")
                ELSE QuizAnswer(200, "")

\* the bodies' values: "" and 0 are the falsy ones
Emails == {"", "e"}
Phones == {"", "p"}
Names == {"", "n"}
Ages == {0, 9}
ParentReadings == {"", "daily"}
BookSeriesLists ==
    {<<>>, <<[seriesId |-> "s1", hasRead |-> TRUE, response |-> "love"]>>}
\* further keys of a body
BodyExtras ==
    {<<>>, <<<<Field("name"), "n">>>>,
     <<<<ProgressPath("completed"), TRUE>>>>}

save_parent_consent(email, phone) ==
    /\ QuizFrame
    /\ IF email = "" \/ phone = ""
       THEN /\ response' = QuizAnswer(400, "Email and phone are required")
            /\ UNCHANGED quiz_users_collection
       ELSE /\ Len(quiz_users_collection) < MaxQuizUsers
            /\ quiz_users_collection' =
                   Append(quiz_users_collection, NewQuizUser)
            /\ response' = QuizAnswer(200, "")

update_user_basic_info(user_id, name, age) ==
    /\ QuizFrame
    /\ IF name = "" \/ age = 0
       THEN /\ response' = QuizAnswer(400, "Name and age are required")
            /\ UNCHANGED quiz_users_collection
       ELSE UpdateQuizUser(user_id, <<<<Field("name"), name>>, <<Field("age"), age>>,
                                      <<ProgressPath("basicInfo"), TRUE>>>>)

update_parent_reading(user_id, parent_reading) ==
    /\ QuizFrame
    /\ IF parent_reading = ""
       THEN /\ response' =
                   QuizAnswer(400, "Parent reading habits are required")
            /\ UNCHANGED quiz_users_collection
       ELSE UpdateQuizUser(user_id,
                           <<<<Field("parentReading"), parent_reading>>,
                             <<ProgressPath("parentReading"), TRUE>>>>)

update_genre_preferences(user_id) ==
    /\ QuizFrame
    /\ UpdateQuizUser(user_id, <<<<ProgressPath("genres"), TRUE>>>>)

update_interests(user_id) ==
    /\ QuizFrame
    /\ UpdateQuizUser(user_id, <<<<ProgressPath("interests"), TRUE>>>>)

update_book_series_responses(user_id, book_series) ==
    /\ QuizFrame
    /\ UpdateQuizUser(user_id, <<<<Field("bookSeries"), book_series>>,
                                 <<ProgressPath("bookSeries"), TRUE>>>>)

\* update_data, then every further key of the body over it
complete_quiz(user_id, extra) ==
    /\ QuizFrame
    /\ IF user_id \notin ObjectIds
       THEN /\ response' = QuizAnswer(400, "Valid user ID is required")
            /\ UNCHANGED quiz_users_collection
       ELSE UpdateQuizUser(user_id,
                           <<<<ProgressPath("completed"), TRUE>>,
                             <<Field("status"), "completed">>>> \o extra)

\* $set of the body as it came
update_quiz_user_data(user_id, body) ==
    /\ QuizFrame
    /\ UpdateQuizUser(user_id, body)

save_quiz_user_recommendations(user_id, given) ==
    /\ QuizFrame
    /\ IF ~ given
       THEN /\ response' = QuizAnswer(400, "Recommendations are required")
            /\ UNCHANGED quiz_users_collection
       ELSE UpdateQuizUser(user_id, <<<<Field("recommendations"), "r">>>>)

InitQuiz ==
    /\ pc = "quiz"
    /\ request = NoRequest
    /\ data = NoRequest.data
    /\ now_month = CHOOSE m \in NowMonths : TRUE
    /\ empty_plan_bound = FALSE
    /\ books_collection = <<>>
    /\ quiz_users_collection = <<>>
    /\ recommendations_collection = InitialRecommendations
    /\ recommendation_plans_collection = <<>>
    /\ min_books = DefaultMinBooks
    /\ potential_books = <<>>
    /\ llm_choice = 0
    /\ recommendations = <<>>
    /\ current_recs = <<>>
    /\ future_recs = <<>>
    /\ calls = <<>>
    /\ response = NoResponse
    /\ NoProbes

NextQuiz ==
    \/ \E email \in Emails, phone \in Phones :
          save_parent_consent(email, phone)
    \/ \E user_id \in QuizUserIds, name \in Names, age \in Ages :
          update_user_basic_info(user_id, name, age)
    \/ \E user_id \in QuizUserIds, parent_reading \in ParentReadings :
          update_parent_reading(user_id, parent_reading)
    \/ \E user_id \in QuizUserIds : update_genre_preferences(user_id)
    \/ \E user_id \in QuizUserIds : update_interests(user_id)
    \/ \E user_id \in QuizUserIds, book_series \in BookSeriesLists :
          update_book_series_responses(user_id, book_series)
    \/ \E user_id \in QuizUserIds, extra \in BodyExtras :
          complete_quiz(user_id, extra)
    \/ \E user_id \in QuizUserIds, body \in BodyExtras :
          update_quiz_user_data(user_id, body)
    \/ \E user_id \in QuizUserIds, given \in BOOLEAN :
          save_quiz_user_recommendations(user_id, given)

SpecQuiz == InitQuiz /\ [][NextQuiz]_vars

(***************************************************************************)
(* The admin endpoints update_recommendations and delete_book.  A stored   *)
(* book carries its _id; the books of a recommendations document are       *)
(* Python values, as the request gave them.                                *)
(***************************************************************************)
MaxBookIds == 2

MaxListed == 2

K_id == <<"i", "d">>
K_title == <<"t", "i", "t", "l", "e">>
K_author == <<"a", "u", "t", "h", "o", "r">>

\* str(ObjectId) of the n-th book
BookIdText(n) == PyStr(NumText(n))

\* a document of books_collection with its _id
StoredBook(n) ==
    ("_id" :> n) @@ Book({"Fantasy"}, TRUE, Yr(8), Yr(12))

\* a book object of a PUT /recommendations/<age_group> body
BookObject(n) ==
    PyDict(<< Item(K_id, BookIdText(n)),
              Item(K_title, PyStr(<<"T">> \o NumText(n))),
              Item(K_author, PyStr(<<"A">>)) >>)

\* a book object with an empty title
UntitledObject ==
    PyDict(<< Item(K_id, BookIdText(1)), Item(K_title, PyStr(<<>>)),
              Item(K_author, PyStr(<<"A">>)) >>)

ListedObjects == {BookObject(n) : n \in 1..MaxBookIds} \cup {UntitledObject}

\* request.json of update_recommendations: an object, or a list
RecommendationBodies ==
    {PyDict(<<>>)}
    \cup {PyList(l) : l \in UNION {[1..k -> ListedObjects] : k \in 0..MaxListed}}

RequestedGroups == {"6-8", "13+", "teen"}

\* all(key in book and book[key] for key in ['id', 'title', 'author'])
HasIdTitleAuthor(book) ==
    \A key \in {K_id, K_title, K_author} :
        /\ \E i \in 1..Len(book.e) : book.e[i].k = key
        /\ Truthy(DictGet(book, key, PyNone))

\* {'$pull': {'books': value}}: the elements equal to value are removed
Pull(books, value) == SelectSeq(books, LAMBDA element : element # value)

JsonAnswer(status, error) ==
    Response(status, FALSE, FALSE, error, <<>>, <<>>, <<>>, 0)

BooksFrame ==
    UNCHANGED <<pc, request, data, now_month, empty_plan_bound,
                quiz_users_collection, recommendation_plans_collection,
                min_books, locals, calls, probes>>

update_recommendations(age_group, books) ==
    /\ BooksFrame
    /\ UNCHANGED books_collection
    /\ IF \A k \in 1..Len(AGE_GROUPS) : AGE_GROUPS[k] # age_group
       THEN /\ response' = JsonAnswer(400, "Invalid age group")
            /\ UNCHANGED recommendations_collection
       ELSE IF books.t # "list"
       THEN /\ response' = JsonAnswer(400, "Invalid request format")
            /\ UNCHANGED recommendations_collection
       ELSE IF \E i \in 1..Len(books.e) : ~HasIdTitleAuthor(books.e[i])
       THEN /\ response' =
                   JsonAnswer(400, "Each book must have id, title, and author")
            /\ UNCHANGED recommendations_collection
       ELSE /\ recommendations_collection' =
                   [recommendations_collection EXCEPT ![age_group] = books.e]
            /\ response' = JsonAnswer(200, "")

\* book_id 0 stands for a string that is no ObjectId
delete_book(book_id) ==
    /\ BooksFrame
    /\ IF book_id = 0
       THEN /\ response' = JsonAnswer(400, "Invalid book ID")
            /\ UNCHANGED <<books_collection, recommendations_collection>>
       ELSE IF \A i \in 1..Len(books_collection) :
                  books_collection[i]["_id"] # book_id
       THEN /\ response' = JsonAnswer(404, "Book not found")
            /\ UNCHANGED <<books_collection, recommendations_collection>>
       ELSE /\ books_collection' =
                   SelectSeq(books_collection,
                             LAMBDA book : book["_id"] # book_id)
            /\ recommendations_collection' =
                   [g \in DOMAIN recommendations_collection |->
                       Pull(recommendations_collection[g], BookIdText(book_id))]
            /\ response' = JsonAnswer(200, "Book deleted successfully")

InitBooks ==
    /\ pc = "admin"
    /\ request = NoRequest
    /\ data = NoRequest.data
    /\ now_month = CHOOSE m \in NowMonths : TRUE
    /\ empty_plan_bound = FALSE
    /\ books_collection \in
          {[i \in 1..k |-> StoredBook(i)] : k \in 0..MaxBookIds}
    /\ quiz_users_collection = [u \in {"u1"} |-> ValidData]
    /\ recommendations_collection = InitialRecommendations
    /\ recommendation_plans_collection = <<>>
    /\ min_books = DefaultMinBooks
    /\ potential_books = <<>>
    /\ llm_choice = 0
    /\ recommendations = <<>>
    /\ current_recs = <<>>
    /\ future_recs = <<>>
    /\ calls = <<>>
    /\ response = NoResponse
    /\ NoProbes

NextBooks ==
    \/ \E age_group \in RequestedGroups, books \in RecommendationBodies :
          update_recommendations(age_group, books)
    \/ \E book_id \in 0..MaxBookIds : delete_book(book_id)

SpecBooks == InitBooks /\ [][NextBooks]_vars

(***************************************************************************)
(* The padding of all_recommendations step by step: the copy, the fallback *)
(* records, every round of the while loop, the cut to 12.                  *)
(***************************************************************************)
\* a faulty fallback step: no record is ever added
WithFallbackNever(all) == all

\* if len(all_recommendations) < 6: all_recommendations.extend(fallback)
WithFallback(all) ==
    IF Len(all) < FallbackThreshold THEN all \o fallback_recommendations
    ELSE all

link_parse == <<series_name, link_terms, parse_case>>

LoopFrame ==
    UNCHANGED <<request, data, now_month, empty_plan_bound, stores,
                recommendation_plans_collection, min_books, locals, calls,
                response, link_parse, quiz_responses_collection, in_flight,
                messages>>

InitLoop ==
    /\ pc = "copy"
    /\ IdleHandler
    /\ NoProbes
    /\ books_collection = <<>>
    /\ min_books = DefaultMinBooks
    /\ data = ValidData
    /\ potential_books = <<>>
    /\ recommendations \in RankedLists
    /\ current_recs = <<>>
    /\ future_recs = <<>>

\* all_recommendations = recommendations.copy()
CopyRecommendations ==
    /\ pc = "copy"
    /\ allocation' = recommendations
    /\ pc' = IF Len(recommendations) < total_books_needed THEN "fallback"
             ELSE "cut"
    /\ LoopFrame

AddFallback ==
    /\ pc = "fallback"
    /\ allocation' = WithFallback(allocation)
    /\ pc' = "loop"
    /\ LoopFrame

\* one test of the while condition, and one round of the loop when it holds
ExtendOnce ==
    /\ pc = "loop"
    /\ IF Len(allocation) < total_books_needed
       THEN /\ allocation' =
                   allocation \o
                   Take(allocation, total_books_needed - Len(allocation))
            /\ pc' = "loop"
       ELSE /\ pc' = "cut"
            /\ UNCHANGED allocation
    /\ LoopFrame

\* all_recommendations = all_recommendations[:total_books_needed]
CutToNeeded ==
    /\ pc = "cut"
    /\ allocation' = Take(allocation, total_books_needed)
    /\ pc' = "done"
    /\ LoopFrame

NextLoop == CopyRecommendations \/ AddFallback \/ ExtendOnce \/ CutToNeeded

SpecLoop == InitLoop /\ [][NextLoop]_vars

\* the handler runs on: no step of it waits for anything
SpecLoopFair == SpecLoop /\ WF_vars(NextLoop)

(***************************************************************************)
(* save_book_series_response, request by request: the insert into          *)
(* quiz_responses, the read of the user, the write of bookSeries.  Each    *)
(* stretch between two calls of the store is one step, so that requests    *)
(* served by different threads interleave.                                 *)
(***************************************************************************)
MaxInFlight == 2

MaxResponses == 3

SeriesIdValues == {PyStr(<<"s", "1">>), PyStr(<<"s", "2">>), PyNone}

HasReadValues == {PyBool(TRUE), PyBool(FALSE), PyNone}

\* the user ids of the requests: 0 stands for a string that is no ObjectId,
\* 1 is the ObjectId of the one user there may be
SeriesUserIds == {0, 1}

SeriesEntry(series_id, has_read, response_value) ==
    [seriesId |-> series_id, hasRead |-> has_read, response |-> response_value]

\* a faulty update of book_series: the entry always appended
UpsertAppend(book_series, series_id, has_read, response_value) ==
    Append(book_series, SeriesEntry(series_id, has_read, response_value))

\* the loop over book_series and the append after it
Upsert(book_series, series_id, has_read, response_value) ==
    IF \E i \in 1..Len(book_series) : book_series[i].seriesId = series_id
    THEN LET first == CHOOSE i \in 1..Len(book_series) :
                         /\ book_series[i].seriesId = series_id
                         /\ \A j \in 1..(i - 1) :
                               book_series[j].seriesId # series_id
         IN  [book_series EXCEPT
                 ![first] = SeriesEntry(series_id, has_read, response_value)]
    ELSE Append(book_series, SeriesEntry(series_id, has_read, response_value))

\* a request slot: where the request stands, its arguments, the local
\* book_series, and its answer once it has one
Slot(at, user_id, series_id, has_read, book_series, status, error) ==
    [pc |-> at, user_id |-> user_id, series_id |-> series_id,
     has_read |-> has_read, book_series |-> book_series,
     status |-> status, error |-> error]

IdleSlot == Slot("idle", 0, PyNone, PyNone, <<>>, 0, "")

\* the slot of a request that has returned: its locals are gone
Answered(slot, status, error) ==
    Slot("done", slot.user_id, PyNone, PyNone, <<>>, status, error)

SeriesFrame ==
    UNCHANGED <<pc, request, data, now_month, empty_plan_bound,
                books_collection, recommendations_collection,
                recommendation_plans_collection, min_books, locals, calls,
                response, link_parse, allocation, messages>>

\* from the start of the handler to quiz_responses_collection.insert_one
BeginResponse(r, user_id, series_id, has_read) ==
    /\ in_flight[r].pc \in {"idle", "done"}
    /\ LET slot == Slot("find", user_id, series_id, has_read, <<>>, 0, "")
       IN  IF user_id = 0
           THEN /\ in_flight' = [in_flight EXCEPT
                       ![r] = Answered(slot, 400, "Invalid user ID")]
                /\ UNCHANGED quiz_responses_collection
           ELSE IF series_id = PyNone \/ has_read = PyNone
           THEN /\ in_flight' = [in_flight EXCEPT
                       ![r] = Answered(slot, 400,
                                       "Series ID and hasRead are required")]
                /\ UNCHANGED quiz_responses_collection
           ELSE /\ Len(quiz_responses_collection) < MaxResponses
                /\ quiz_responses_collection' =
                       Append(quiz_responses_collection,
                              [userId |-> user_id, seriesId |-> series_id,
                               hasRead |-> has_read,
                               response |-> PyStr(<<"o", "k">>)])
                /\ in_flight' = [in_flight EXCEPT ![r] = slot]
    /\ UNCHANGED quiz_users_collection
    /\ SeriesFrame

\* user = quiz_users_collection.find_one(...), and the new book_series
\* worked out from the user read
FindUser(r) ==
    /\ in_flight[r].pc = "find"
    /\ LET slot == in_flight[r]
       IN  in_flight' =
             [in_flight EXCEPT ![r] =
                IF slot.user_id \notin DOMAIN quiz_users_collection
                THEN Answered(slot, 404, "User not found")
                ELSE [slot EXCEPT
                        !.pc = "update",
                        !.book_series =
                            Upsert(quiz_users_collection[slot.user_id].bookSeries,
                                   slot.series_id, slot.has_read,
                                   PyStr(<<"o", "k">>))]]
    /\ UNCHANGED <<quiz_users_collection, quiz_responses_collection>>
    /\ SeriesFrame

\* quiz_users_collection.update_one(..., {'$set': {'bookSeries': ...}})
WriteBookSeries(r) ==
    /\ in_flight[r].pc = "update"
    /\ quiz_users_collection' =
           UpdateOne(quiz_users_collection, in_flight[r].user_id,
                     <<<<Field("bookSeries"), in_flight[r].book_series>>>>)
    /\ in_flight' = [in_flight EXCEPT ![r] = Answered(in_flight[r], 200, "")]
    /\ UNCHANGED quiz_responses_collection
    /\ SeriesFrame

InitSeries ==
    /\ pc = "quiz"
    /\ request = NoRequest
    /\ data = NoRequest.data
    /\ now_month = CHOOSE m \in NowMonths : TRUE
    /\ empty_plan_bound = FALSE
    /\ books_collection = <<>>
    /\ quiz_users_collection \in {<<>>, <<NewQuizUser>>}
    /\ recommendations_collection = InitialRecommendations
    /\ recommendation_plans_collection = <<>>
    /\ min_books = DefaultMinBooks
    /\ potential_books = <<>>
    /\ llm_choice = 0
    /\ recommendations = <<>>
    /\ current_recs = <<>>
    /\ future_recs = <<>>
    /\ calls = <<>>
    /\ response = NoResponse
    /\ series_name = <<>>
    /\ link_terms = <<>>
    /\ parse_case = NoCase
    /\ allocation = <<>>
    /\ quiz_responses_collection = <<>>
    /\ in_flight = [r \in 1..MaxInFlight |-> IdleSlot]
    /\ messages = <<>>

\* no request is between its first and its last step
NoneUnderWay == \A r \in DOMAIN in_flight : in_flight[r].pc \in {"idle", "done"}

NextSeries ==
    \/ \E r \in 1..MaxInFlight, user_id \in SeriesUserIds,
          series_id \in SeriesIdValues, has_read \in HasReadValues :
          BeginResponse(r, user_id, series_id, has_read)
    \/ \E r \in 1..MaxInFlight : FindUser(r)
    \/ \E r \in 1..MaxInFlight : WriteBookSeries(r)

\* requests served by several threads
SpecSeries == InitSeries /\ [][NextSeries]_vars

\* requests served one after the other, by a single thread
NextSeriesInTurn ==
    \/ \E user_id \in SeriesUserIds, series_id \in SeriesIdValues,
          has_read \in HasReadValues :
          BeginResponse(1, user_id, series_id, has_read)
    \/ FindUser(1)
    \/ WriteBookSeries(1)

SpecSeriesInTurn == InitSeries /\ [][NextSeriesInTurn]_vars

(***************************************************************************)
(* format_book_recommendations_messages of whatsapp_api.py.  A text is the *)
(* sequence of its pieces (the literals of the source, the strings of the  *)
(* input) together with its length in characters, which is all the         *)
(* function looks at.                                                      *)
(***************************************************************************)
Text(parts, length) == [parts |-> parts, len |-> length]

\* a literal of the source, or a string of the input, of n characters
Lit(piece, n) == Text(<<piece>>, n)

NoText == Text(<<>>, 0)

Cat(a, b) == Text(a.parts \o b.parts, a.len + b.len)

RECURSIVE CatAll(_)
CatAll(texts) ==
    IF texts = <<>> THEN NoText ELSE Cat(texts[1], CatAll(Tail(texts)))

MessageLimit == 3800

ExplanationCut == 100

FeaturedCount == 2

\* text[:ExplanationCut]
CutText(text) ==
    IF text.len <= ExplanationCut THEN text
    ELSE Text(text.parts \o <<"[:100]">>, ExplanationCut)

\* header
Header(name) ==
    CatAll(<<Lit("(books) Book Recommendations for ", 30), name,
             Lit(" (books)\n", 6)>>)

Footer == Lit("\n(books) Happy Reading! (books)", 25)

\* the line of a book in the top picks and in a month: title, series and
\* author
BookLine(book) ==
    CatAll(<<Lit("* ", 4), book.title,
             IF book.series # NoText
             THEN CatAll(<<Lit(" (", 2), book.series, Lit(" Series)", 8)>>)
             ELSE NoText,
             Lit(" by ", 4), book.author, Lit("\n", 1)>>)

\* what a book of data['current'] adds to picks_message
PickText(book) ==
    CatAll(<<BookLine(book),
             IF book.explanation # NoText
             THEN CatAll(<<Lit("  Why: ", 7), CutText(book.explanation),
                           Lit("...\n", 4)>>)
             ELSE NoText,
             Lit("\n", 1)>>)

PicksMessage(current) ==
    Cat(Lit("(star) TOP PICKS FOR YOU (star)\n", 24),
        CatAll([i \in 1..Len(current) |-> PickText(current[i])]))

\* messages after the top picks block: current_message is appended only
\* when the picks do not fit, as it was before them, and is not used again
AfterPicks(header, current) ==
    IF current = <<>> THEN <<>>
    ELSE IF Cat(header, PicksMessage(current)).len > MessageLimit
    THEN <<header>>
    ELSE <<>>

SeriesHeader == Lit("(book) RECOMMENDED SERIES & AUTHORS (book)\n", 39)

\* series_text of a record
SeriesText(rec) ==
    CatAll(<<Lit("\n", 1), rec.name, Lit(" by ", 4),
             Lit("Unknown Author", 14), Lit(" (Score: ", 9),
             rec.confidence_score, Lit("/10)\n", 5),
             IF rec.rationale # NoText
             THEN CatAll(<<Lit("Why: ", 5), CutText(rec.rationale),
                           Lit("...\n", 4)>>)
             ELSE NoText,
             IF rec.sample_books # <<>>
             THEN Cat(Lit("Featured Books:\n", 16),
                      CatAll([i \in 1..Min(FeaturedCount, Len(rec.sample_books))
                                 |-> CatAll(<<Lit("* ", 4),
                                              rec.sample_books[i].title,
                                              Lit(" by ", 4),
                                              rec.sample_books[i].author,
                                              Lit("\n", 1)>>)]))
             ELSE NoText,
             Lit("(search) View More: ", 15), rec.justbookify_link,
             Lit("\n", 1)>>)

RECURSIVE SeriesLoop(_, _, _, _, _)
\* the loop over data['recommendations'] from the i-th record on, and the
\* append after it
SeriesLoop(header, recs, i, msgs, current_series_message) ==
    IF i > Len(recs)
    THEN IF current_series_message # SeriesHeader
         THEN Append(msgs, current_series_message)
         ELSE msgs
    ELSE IF Cat(current_series_message, SeriesText(recs[i])).len > MessageLimit
    THEN SeriesLoop(header, recs, i + 1, Append(msgs, current_series_message),
                    CatAll(<<header, SeriesHeader, SeriesText(recs[i])>>))
    ELSE SeriesLoop(header, recs, i + 1, msgs,
                    Cat(current_series_message, SeriesText(recs[i])))

AfterSeries(header, recs, msgs) ==
    IF recs = <<>> THEN msgs
    ELSE SeriesLoop(header, recs, 1, msgs, SeriesHeader)

\* the message of a month of data['future']
MonthMessage(header, month) ==
    CatAll(<<header, Lit("(calendar) ", 5), month.month,
             Lit(" READING PLAN (calendar)\n", 19),
             IF month.books # <<>>
             THEN CatAll([i \in 1..Len(month.books) |->
                             BookLine(month.books[i])])
             ELSE Lit("More recommendations coming soon!\n", 34),
             Lit("\n", 1)>>)

AfterFuture(header, future, msgs) ==
    msgs \o [i \in 1..Len(future) |-> MonthMessage(header, future[i])]

\* messages[-1] += footer
WithFooter(msgs) ==
    IF msgs = <<>> THEN msgs
    ELSE [msgs EXCEPT ![Len(msgs)] = Cat(@, Footer)]

format_book_recommendations_messages(d) ==
    LET header == Header(d.name)
    IN  WithFooter(
          AfterFuture(header, d.future,
            AfterSeries(header, d.recommendations,
              AfterPicks(header, d.current))))

MaxCurrent == 2

LongTitleLen == 4000

\* the books of the inputs: a short title with a long explanation, a very
\* long title with none
ShortPick ==
    [title |-> Lit("T1", 2), author |-> Lit("X", 1), series |-> NoText,
     explanation |-> Lit("e", 150)]

LongPick ==
    [title |-> Lit("T2", LongTitleLen), author |-> Lit("Y", 1),
     series |-> Lit("S", 1), explanation |-> NoText]

FormatRecord ==
    [name |-> Lit("S", 1), confidence_score |-> Lit("9", 1),
     rationale |-> Lit("r", 1),
     sample_books |-> <<[title |-> Lit("B1", 2), author |-> Lit("S", 1)]>>,
     justbookify_link |-> Lit("L", 1)]

FormatInputs ==
    [name : {Lit("A", 1), Lit("Reader", 6)},
     current : UNION {[1..k -> {ShortPick, LongPick}] : k \in 0..MaxCurrent},
     recommendations : {<<>>, <<FormatRecord>>},
     future : {<<>>,
               <<[month |-> Lit("MARCH", 5), books |-> <<ShortPick>>]>>,
               <<[month |-> Lit("MARCH", 5), books |-> <<>>]>>}]

InitFormat ==
    /\ pc = "format"
    /\ request = NoRequest
    /\ data \in FormatInputs
    /\ now_month = CHOOSE m \in NowMonths : TRUE
    /\ empty_plan_bound = FALSE
    /\ books_collection = <<>>
    /\ quiz_users_collection = <<>>
    /\ recommendations_collection = InitialRecommendations
    /\ recommendation_plans_collection = <<>>
    /\ min_books = DefaultMinBooks
    /\ potential_books = <<>>
    /\ llm_choice = 0
    /\ recommendations = <<>>
    /\ current_recs = <<>>
    /\ future_recs = <<>>
    /\ calls = <<>>
    /\ response = NoResponse
    /\ NoProbes

Format ==
    /\ pc = "format"
    /\ messages' = format_book_recommendations_messages(data)
    /\ pc' = "done"
    /\ UNCHANGED <<request, data, now_month, empty_plan_bound, stores,
                   recommendation_plans_collection, min_books, locals, calls,
                   response, link_parse, allocation,
                   quiz_responses_collection, in_flight>>

NextFormat == Format

SpecFormat == InitFormat /\ [][NextFormat]_vars

(***************************************************************************)
(* Properties.                                                             *)
(***************************************************************************)
\* a future list of MonthCount buckets with `count` books in each
HasShape(future, count) ==
    /\ Len(future) = MonthCount
    /\ \A m \in 1..Len(future) : Len(future[m].books) = count

Issued(op) == \E i \in 1..Len(calls) : calls[i].op = op

CountIssued(op) == Cardinality({i \in 1..Len(calls) : calls[i].op = op})

\* C1: whatever the number of ranked records (0, 1, 5, 11, 12, 30, ...),
\* the allocation ends with exactly 3 month buckets of exactly 4 entries.
C1_AllocationShape ==
    pc = "done" => HasShape(future_recs, BooksPerMonth)

C1_Witness ==
    /\ pc = "done"
    /\ Len(recommendations) = 5
    /\ HasShape(future_recs, BooksPerMonth)

\* C2, as claimed: every response with a future field has 3 buckets of
\* exactly 4 entries, and at most 3 current entries.
C2_EveryFutureFull ==
    (pc = "done" /\ response.has_plan) =>
        /\ HasShape(response.future, BooksPerMonth)
        /\ Len(response.current) <= CurrentCount

PlanErrors == {"", "Recommendations generated but failed to save"}

\* C2, amended: every response with a future field has exactly 3 buckets
\* and at most 3 current entries; the buckets hold exactly 4 entries each
\* in a generated plan (saved or not) and none in the no-candidates,
\* LLM-failure, parse-failure and internal-error responses.
C2_FutureShape ==
    (pc = "done" /\ response.has_plan) =>
        /\ Len(response.current) <= CurrentCount
        /\ IF response.error \in PlanErrors
           THEN HasShape(response.future, BooksPerMonth)
           ELSE HasShape(response.future, 0)

C2_Witness ==
    /\ pc = "done"
    /\ response.has_plan
    /\ response.error = ""
    /\ Len(response.recommendations) = 1
    /\ HasShape(response.future, BooksPerMonth)

\* C3: with min_books no larger than the catalog, get_flexible_books
\* returns at least min(min_books, catalog size) books.
C3_EnoughBooks ==
    (pc = "done" /\ min_books <= Len(books_collection)) =>
        Len(potential_books) >= Min(min_books, Len(books_collection))

C3_Witness ==
    /\ pc = "done"
    /\ min_books = 2
    /\ Len(books_collection) = 3
    /\ StrictBooks(books_collection, data.age.h, data.selectedGenres.v) = <<>>
    /\ Len(AgeOnlyBooks(books_collection, data.age.h)) = 1
    /\ Len(potential_books) = 3

\* the positions of the books that satisfy both predicates, then the age
\* predicate alone
StrictSet ==
    {i \in 1..Len(books_collection) :
        /\ books_collection[i].genres \cap data.selectedGenres.v # {}
        /\ books_collection[i].has_range
        /\ books_collection[i].min <= data.age.h
        /\ data.age.h <= books_collection[i].max}

AgeOnlySet ==
    {i \in 1..Len(books_collection) :
        /\ books_collection[i].has_range
        /\ books_collection[i].min <= data.age.h
        /\ data.age.h <= books_collection[i].max}

\* seq lists exactly the positions of S, in storage order
ListsExactly(seq, S) ==
    /\ {seq[k] : k \in 1..Len(seq)} = S
    /\ \A k \in 1..(Len(seq) - 1) : seq[k] < seq[k + 1]

\* C4: the result is exactly the strict set when that reaches min_books,
\* else exactly the age-only set when that reaches min_books, else the
\* whole catalog; a stricter tier that reaches min_books is never relaxed.
C4_LeastRelaxedTier ==
    pc = "done" =>
        ListsExactly(potential_books,
                     IF Cardinality(StrictSet) >= min_books THEN StrictSet
                     ELSE IF Cardinality(AgeOnlySet) >= min_books
                     THEN AgeOnlySet
                     ELSE 1..Len(books_collection))

C4_Witness ==
    /\ pc = "done"
    /\ books_collection = ScenarioCatalog
    /\ min_books = DefaultMinBooks
    /\ potential_books = [i \in 1..ScenarioFantasyCount |-> i]

\* C5: with an empty catalog no LLM call is made and no plan written; once
\* the three queries have come back empty the handler answers 200 with
\* current = [], recommendations = [], three months without books and the
\* error note.
C5_NoCandidates ==
    books_collection = <<>> =>
        /\ ~Issued("openai.ChatCompletion.create")
        /\ ~Issued("recommendation_plans.insert_one")
        /\ recommendation_plans_collection = <<>>
        /\ (pc = "done" /\ CountIssued("books.find") = 3) =>
               response = EmptyPlan("No books found in database", now_month)

C5_Witness ==
    /\ books_collection = <<>>
    /\ pc = "done"
    /\ CountIssued("books.find") = 3
    /\ response.status = 200
    /\ response.error = "No books found in database"

LLMFailed == Issued("openai.ChatCompletion.create") /\ llm_choice = 0

\* C6: when the LLM call raises, the handler answers the empty plan with an
\* error field; nothing reaches the caller as an exception and no plan is
\* stored.
C6_LLMFailure ==
    LLMFailed =>
        /\ pc = "done"
        /\ response = EmptyPlan("OpenAI API error", now_month)
        /\ ~response.unhandled
        /\ HasShape(response.future, 0)
        /\ recommendation_plans_collection = <<>>
        /\ ~Issued("recommendation_plans.insert_one")

C6_Witness ==
    /\ LLMFailed
    /\ pc = "done"
    /\ response.error = "OpenAI API error"

\* C7: no execution lets an exception leave the handler: whatever the body
\* and whichever external call fails, the response is a structured one.
C7_NoUnhandledException ==
    pc = "done" => ~response.unhandled

InsertFailed ==
    /\ pc = "done"
    /\ Issued("recommendation_plans.insert_one")
    /\ recommendation_plans_collection = <<>>

\* C8: when the insert fails the response still carries the computed
\* current, future and recommendations, with an error note and no planId;
\* a planId is in the response exactly when the insert succeeded.
C8_SaveIsBestEffort ==
    /\ InsertFailed =>
          /\ response.status = 200
          /\ response.current = ProcessTable[llm_choice][now_month].current
          /\ response.future = ProcessTable[llm_choice][now_month].future
          /\ response.recommendations =
                 ProcessTable[llm_choice][now_month].recommendations
          /\ response.error = "Recommendations generated but failed to save"
          /\ response.planId = 0
    /\ pc = "done" =>
          (response.planId # 0 <=> recommendation_plans_collection # <<>>)

C8_Witness ==
    /\ InsertFailed
    /\ Len(response.recommendations) = 3
    /\ HasShape(response.future, BooksPerMonth)

\* the data fail one of the three checks
InvalidData(d) ==
    \/ ~(required_fields \subseteq d.fields)
    \/ ~AgeIsValid(d.age)
    \/ ~GenresAreValid(d.selectedGenres)

\* C9, as claimed: a request whose body fails a check is answered 400 and
\* no external call has been issued for it.
C9_RejectedBeforeAnyCall ==
    (pc = "done" /\ request.kind = "object" /\ InvalidData(request.data)) =>
        /\ response.status = 400
        /\ calls = <<>>

OnlyQuizLookup ==
    /\ Len(calls) <= 1
    /\ \A i \in 1..Len(calls) : calls[i].op = "quiz_users.find_one"

\* C9, amended: when the data the handler validates (the body, or the quiz
\* user read for a valid userId) fail a check, the handler answers 400 at
\* once, and the one external call that can have been issued by then is
\* the read of the quiz user: no catalog or recommendations read, no LLM
\* call, no insert.
C9_RejectedAtValidation ==
    [][(pc = "validate" /\ InvalidData(data)) =>
          /\ pc' = "done"
          /\ response'.status = 400
          /\ calls' = calls
          /\ OnlyQuizLookup]_vars

C9_Witness ==
    /\ pc = "done"
    /\ response.status = 400
    /\ InvalidData(data)
    /\ Len(calls) = 1
    /\ calls[1].op = "quiz_users.find_one"

\* C10: an answer without any JSON array (prose, or a JSON object, number
\* or string) ends the parsing stage with no recommendations and an error
\* note, and no exception reaches the caller.
C10_NoArrayIsAnError ==
    (llm_choice # 0 /\ NoJsonArray(raw_content) /\ pc # "parse") =>
        /\ pc = "done"
        /\ ~response.unhandled
        /\ response.recommendations = <<>>
        /\ response.error = "Error processing recommendations"

\* C11: an answer that is a valid JSON array of recommendation objects but
\* for one trailing comma before a closing } or ] yields exactly the
\* records that the same answer without the comma yields, also when a
\* string value holds a comma followed by } or ].
C11_TrailingCommaRecovered ==
    LET direct == CollectAnswer(CaseText([parse_case EXCEPT !.comma = 0]))
    IN  (parse_case.comma # 0 /\ pc = "sort") =>
            /\ ~direct.raised
            /\ recommendations = direct.recs

RECURSIVE KeptFrom(_, _)
\* the names of the elements of a kept kind, from the i-th on
KeptFrom(elements, i) ==
    IF i > Len(elements) THEN <<>>
    ELSE IF elements[i] \in KeptKinds
    THEN <<ElementName(i)>> \o KeptFrom(elements, i + 1)
    ELSE KeptFrom(elements, i + 1)

NamesOf(recs) == [i \in 1..Len(recs) |-> recs[i].name.s]

\* C12: the records are exactly the elements with a non-empty name and a
\* non-empty books list, in input order; an element without them (no or
\* empty name, no, empty or null books, or not an object) is dropped and
\* never makes the parse abort.
C12_FailingElementsDropped ==
    /\ pc = "sort" => NamesOf(recommendations) = KeptFrom(parse_case.elements, 1)
    /\ pc # "done"

\* the place in the answer of the element a record was made of
PlaceOf(rec) ==
    CHOOSE i \in 1..Len(parse_case.elements) : ElementName(i) = rec.name.s

\* C13: the sorted recommendations are in non-increasing order of
\* confidence score, and records of equal score keep the order they had in
\* the answer.
C13_SortedAndStable ==
    pc = "sorted" =>
        /\ {recommendations[i].name.s : i \in 1..Len(recommendations)}
               = {KeptFrom(parse_case.elements, 1)[i] :
                     i \in 1..Len(KeptFrom(parse_case.elements, 1))}
        /\ Len(recommendations) = Len(KeptFrom(parse_case.elements, 1))
        /\ \A i, j \in 1..Len(recommendations) :
              i < j =>
                 /\ recommendations[i].confidence_score.n
                       >= recommendations[j].confidence_score.n
                 /\ recommendations[i].confidence_score.n
                       = recommendations[j].confidence_score.n
                    => PlaceOf(recommendations[i]) < PlaceOf(recommendations[j])

C13_Witness ==
    /\ pc = "sorted"
    /\ parse_case.elements = <<"good7", "good9", "good9">>
    /\ NamesOf(recommendations) =
           <<ElementName(2), ElementName(3), ElementName(1)>>

\* C14: every record of the recommendations has an integer confidence
\* score in 1..10, a non-empty name and a non-empty list of sample books,
\* whatever likely_score the answer carried.
C14_ScoreInRange ==
    pc = "sorted" =>
        \A i \in 1..Len(recommendations) :
            /\ recommendations[i].confidence_score.t = "int"
            /\ recommendations[i].confidence_score.n \in 1..10
            /\ recommendations[i].name.s # <<>>
            /\ recommendations[i].sample_books # <<>>

\* C15: for n ranked records current has exactly min(3, n) entries, and
\* entry i carries the title of the first sample book of the i-th record,
\* its name as author, its rationale as explanation and its link.
C15_CurrentFromTopThree ==
    pc = "done" =>
        /\ Len(current_recs) =
               IF Len(recommendations) < 3 THEN Len(recommendations) ELSE 3
        /\ \A i \in 1..Len(current_recs) :
              /\ current_recs[i].title = recommendations[i].sample_books[1].title
              /\ current_recs[i].author = recommendations[i].name
              /\ current_recs[i].explanation = recommendations[i].rationale
              /\ current_recs[i].justbookify_link =
                     recommendations[i].justbookify_link

C15_Witness ==
    /\ pc = "done"
    /\ Len(recommendations) = 7
    /\ Len(recommendations[3].sample_books) = 2
    /\ Len(current_recs) = 3
    /\ current_recs[3].title.s = <<"T", "3">>

\* the entry is the one made of the record
MadeOf(entry, rec) ==
    /\ entry.title = rec.sample_books[1].title
    /\ entry.author = rec.name
    /\ entry.explanation = rec.rationale
    /\ entry.justbookify_link = rec.justbookify_link

\* the 12 future entries go round the list: entry j of bucket b (both
\* counted from 1) is made of list[((4 (b - 1) + (j - 1)) mod |list|) + 1]
GoesRound(future, list) ==
    /\ HasShape(future, BooksPerMonth)
    /\ \A b \in 1..MonthCount, j \in 1..BooksPerMonth :
          MadeOf(future[b].books[j],
                 list[((BooksPerMonth * (b - 1) + (j - 1)) % Len(list)) + 1])

\* C16, as claimed: with exactly 3 ranked records the 12 future entries go
\* round those 3 records only, and no filler entry is in any bucket.
C16_ThreeRecordsCycled ==
    (pc = "done" /\ Len(recommendations) = 3) =>
        GoesRound(future_recs, recommendations)

\* C16, amended: with 6 to 11 ranked records the 12 future entries go
\* round those records only, without any filler; with exactly 3 records
\* (fewer than 6) the three filler records are added behind them and the
\* 12 entries go round the list of 6.
C16_CycledWithFillerBelowSix ==
    /\ (pc = "done" /\ Len(recommendations) \in 6..11) =>
           GoesRound(future_recs, recommendations)
    /\ (pc = "done" /\ Len(recommendations) = 3) =>
           GoesRound(future_recs, recommendations \o fallback_recommendations)

C16_Witness ==
    /\ pc = "done"
    /\ Len(recommendations) = 3
    /\ future_recs[1].books[4].author.s = FallbackName1
    /\ future_recs[2].books[3].author = recommendations[1].name

\* C17, as claimed: the search term (before URL encoding) of 'The
\* Mysteries Series Collection' is 'mysteries', and so is the term of
\* 'Mysteries Series'.
C17_TermIsMysteries ==
    (link_terms # <<>> /\ series_name \in {N_MysteriesCollection, N_Mysteries})
        => link_terms[1] = <<"m", "y", "s", "t", "e", "r", "i", "e", "s">>

\* C17, amended: the search term of 'The Mysteries Series Collection' is
\* 'the mysteries' (the article is kept); the term of 'Mysteries Series' is
\* 'mysteries'.
C17_TermKeepsArticle ==
    /\ (link_terms # <<>> /\ series_name = N_MysteriesCollection) =>
           link_terms[1] = <<"t", "h", "e", " ", "m", "y", "s", "t", "e", "r",
                             "i", "e", "s">>
    /\ (link_terms # <<>> /\ series_name = N_Mysteries) =>
           link_terms[1] = <<"m", "y", "s", "t", "e", "r", "i", "e", "s">>

C17_Witness ==
    /\ series_name = N_MysteriesCollection
    /\ Len(link_terms) = 1
    /\ link_terms[1][1] = "t"

\* C18: the normalisation reaches a fixed point after at most one extra
\* pass: the term of the second pass is the term of every later pass.
C18_FixedAfterOneMorePass ==
    \A k \in 2..Len(link_terms) : link_terms[k] = link_terms[2]

\* the condition of the k-th branch of get_age_group, k in 1..4
BranchGuard(k, age) ==
    CASE k = 1 -> age < Yr(5)
      [] k = 2 -> Yr(5) <= age /\ age <= Yr(8)
      [] k = 3 -> Yr(9) <= age /\ age <= Yr(10)
      [] k = 4 -> Yr(11) <= age /\ age <= Yr(12)

\* the ages that belong to the k-th label of AGE_GROUPS: those its branch
\* accepts, and for the last label those no branch accepts (the else)
InBracket(k, age) ==
    IF k < Len(AGE_GROUPS) THEN BranchGuard(k, age)
    ELSE ~ \E j \in 1..(Len(AGE_GROUPS) - 1) : BranchGuard(j, age)

\* the age group the handler looked the recommendations up with
LookedUpGroup == calls[1].arg

\* C19: every accepted age, whole or fractional, is looked up under exactly
\* one of the five labels of AGE_GROUPS: the label is one of the five, no two
\* branches take the same age, and the label is the one whose branch takes it
C19_ExactlyOneAgeGroup ==
    pc # "recdoc" =>
        /\ \E k \in 1..Len(AGE_GROUPS) : LookedUpGroup = AGE_GROUPS[k]
        /\ Cardinality({k \in 1..Len(AGE_GROUPS) :
                           InBracket(k, data.age.h)}) = 1
        /\ \E k \in 1..Len(AGE_GROUPS) :
              LookedUpGroup = AGE_GROUPS[k] /\ InBracket(k, data.age.h)

\* a fractional age between two brackets has been looked up
C19_Witness ==
    /\ pc # "recdoc"
    /\ data.age.t = "float"
    /\ data.age.h = Yr(8) + 1
    /\ LookedUpGroup = "13+"

\* C20: a quiz user whose quizProgress.completed is true has every step
\* flag (parentConsent, basicInfo, parentReading, genres, interests,
\* bookSeries) true
C20_CompletedImpliesAllSteps ==
    \A i \in DOMAIN quiz_users_collection :
        quiz_users_collection[i].quizProgress["completed"] =>
            \A k \in StepFlags : quiz_users_collection[i].quizProgress[k]

\* C21 as stated: a call that got through parsing and allocation, that is
\* one that reached the insert, has inserted exactly one plan document
C21_OnePlanWhenAllocated ==
    (pc = "done" /\ Issued("recommendation_plans.insert_one")) =>
        Len(recommendation_plans_collection) = 1

\* C21, amended: a call inserts one plan document when it reached the
\* insert and the insert succeeded, and none otherwise (validation failed,
\* no candidate books, the LLM call failed, the answer could not be parsed,
\* or the insert itself failed); nothing is inserted before the call ends,
\* and the inserted document holds the recommendations, current and future
\* lists of the response
C21_OnePlanWhenSaved ==
    /\ pc # "done" => recommendation_plans_collection = <<>>
    /\ pc = "done" =>
          Len(recommendation_plans_collection) =
             IF /\ Issued("recommendation_plans.insert_one")
                /\ response.error # "Recommendations generated but failed to save"
             THEN 1 ELSE 0
    /\ recommendation_plans_collection # <<>> =>
          /\ CountIssued("recommendation_plans.insert_one") = 1
          /\ recommendation_plans_collection[1].recommendations =
                 response.recommendations
          /\ recommendation_plans_collection[1].currentRecommendations =
                 response.current
          /\ recommendation_plans_collection[1].futureRecommendations =
                 response.future

C21_Witness ==
    /\ pc = "done"
    /\ Len(recommendation_plans_collection) = 1
    /\ response.planId = 1
    /\ Len(response.current) = CurrentCount
    /\ response.current =
           recommendation_plans_collection[1].currentRecommendations

\* the k-th of the 12 future entries, counted through the buckets
FutureEntry(future, k) ==
    future[((k - 1) \div BooksPerMonth) + 1].books[((k - 1) % BooksPerMonth) + 1]

\* the entry is made of one of the fallback records
IsFiller(entry) ==
    \E f \in 1..Len(fallback_recommendations) :
        MadeOf(entry, fallback_recommendations[f])

\* C22: the three fallback records (scores 8, 7, 7) are in the allocation
\* exactly when there are fewer than 6 ranked records; they come right
\* behind all the ranked records, in their own order; and none of them is
\* in recommendations or in current_recs
C22_FillerBelowSixOnly ==
    pc = "done" =>
        /\ <<8, 7, 7>> = [f \in 1..Len(fallback_recommendations) |->
                             fallback_recommendations[f].confidence_score.n]
        /\ (\E k \in 1..total_books_needed :
               IsFiller(FutureEntry(future_recs, k)))
              <=> Len(recommendations) < 6
        /\ Len(recommendations) < 6 =>
              /\ \A k \in 1..Len(recommendations) :
                    MadeOf(FutureEntry(future_recs, k), recommendations[k])
              /\ \A f \in 1..3 :
                    MadeOf(FutureEntry(future_recs, Len(recommendations) + f),
                           fallback_recommendations[f])
        /\ \A i \in 1..Len(current_recs) : ~IsFiller(current_recs[i])
        /\ \A i \in 1..Len(recommendations), f \in 1..3 :
              recommendations[i] # fallback_recommendations[f]

\* five ranked records: the fallback records are entries 6, 7 and 8
C22_Witness ==
    /\ pc = "done"
    /\ Len(recommendations) = 5
    /\ MadeOf(future_recs[2].books[1], recommendations[5])
    /\ MadeOf(future_recs[2].books[2], fallback_recommendations[1])
    /\ MadeOf(future_recs[2].books[4], fallback_recommendations[3])

\* the list the future months are cut from, before the duplication: the
\* ranked records, followed by the fallback records when they are fewer
\* than 6
RankedWithFiller ==
    IF Len(recommendations) < 6
    THEN recommendations \o fallback_recommendations
    ELSE recommendations

\* C23: with L the ranked records (followed by the 3 fallback records when
\* they are fewer than 6) and m its length, entry j (0..3) of future bucket
\* b (0..2) is made of L[4b+j] when m >= 12 and of L[(4b+j) mod m] when
\* m < 12 (indices from 0); and the first future entries are the entries of
\* current_recs
C23_BucketIndexing ==
    pc = "done" =>
        /\ HasShape(future_recs, 4)
        /\ \A b \in 0..2, j \in 0..3 :
              MadeOf(future_recs[b + 1].books[j + 1],
                     RankedWithFiller[
                        IF Len(RankedWithFiller) >= 12
                        THEN (4 * b + j) + 1
                        ELSE ((4 * b + j) % Len(RankedWithFiller)) + 1])
        /\ \A i \in 1..Len(current_recs) :
              current_recs[i] = FutureEntry(future_recs, i)

\* seven ranked records: the eighth entry starts the list again
C23_Witness ==
    /\ pc = "done"
    /\ Len(recommendations) = 7
    /\ MadeOf(future_recs[2].books[3], recommendations[7])
    /\ MadeOf(future_recs[2].books[4], recommendations[1])
    /\ MadeOf(future_recs[3].books[4], recommendations[5])
    /\ current_recs[3] = future_recs[1].books[3]

\* the entry of a stored recommendation list is a book object with this id
HasId(entry, book_id) ==
    entry.t = "dict" /\ DictGet(entry, K_id, PyNone) = BookIdText(book_id)

\* C24: once delete_book has succeeded for a book id, no age group's
\* stored recommendation list holds an entry with that id
C24_DeletedBookNotRecommended ==
    [][\A book_id \in 1..MaxBookIds :
          (delete_book(book_id) /\ response'.status = 200) =>
              \A g \in DOMAIN recommendations_collection' :
                 \A i \in 1..Len(recommendations_collection'[g]) :
                    ~HasId(recommendations_collection'[g][i], book_id)]_vars

\* C25: for every number of ranked records, none included, the list the
\* padding loop duplicates is never empty, the loop comes to an end, and
\* after the cut the list has exactly 12 entries
C25_LoopEndsWithTwelve ==
    /\ [](pc = "loop" => allocation # <<>>)
    /\ <>(pc = "done" /\ Len(allocation) = total_books_needed)

\* no ranked record at all: the loop ran over the fallback records
C25_Witness ==
    /\ pc = "done"
    /\ recommendations = <<>>
    /\ Len(allocation) = total_books_needed
    /\ allocation[4] = fallback_recommendations[1]
    /\ allocation = AllRecommendations(recommendations)

\* the records of quiz_responses for a user, in the order of the calls
UserLog(u) ==
    SelectSeq(quiz_responses_collection, LAMBDA rec : rec.userId = u)

\* C26: once the requests have all finished, every response saved for an
\* existing user, whichever thread served it, is in the user's bookSeries:
\* two requests with different seriesId served at the same time both leave
\* their entry
C26_NoLostResponse ==
    NoneUnderWay =>
        \A u \in DOMAIN quiz_users_collection :
           \A k \in 1..Len(UserLog(u)) :
              \E i \in 1..Len(quiz_users_collection[u].bookSeries) :
                 quiz_users_collection[u].bookSeries[i].seriesId =
                     UserLog(u)[k].seriesId

\* the first and the last call for a seriesId in a log
FirstCall(log, series_id) ==
    CHOOSE k \in 1..Len(log) :
        /\ log[k].seriesId = series_id
        /\ \A j \in 1..(k - 1) : log[j].seriesId # series_id

LastCall(log, series_id) ==
    CHOOSE k \in 1..Len(log) :
        /\ log[k].seriesId = series_id
        /\ \A j \in (k + 1)..Len(log) : log[j].seriesId # series_id

\* C27: after calls made one after the other on a user whose bookSeries
\* was empty, bookSeries has one entry for each seriesId called with and no
\* other, each entry has hasRead and response of the last call for its
\* seriesId, and the entries stand in the order of the first calls
C27_OneEntryPerSeries ==
    NoneUnderWay =>
        \A u \in DOMAIN quiz_users_collection :
           LET book_series == quiz_users_collection[u].bookSeries
               log == UserLog(u)
           IN  /\ \A i, j \in 1..Len(book_series) :
                     i # j => book_series[i].seriesId # book_series[j].seriesId
               /\ {book_series[i].seriesId : i \in 1..Len(book_series)}
                     = {log[k].seriesId : k \in 1..Len(log)}
               /\ \A i \in 1..Len(book_series) :
                     LET last == log[LastCall(log, book_series[i].seriesId)]
                     IN  /\ book_series[i].hasRead = last.hasRead
                         /\ book_series[i].response = last.response
               /\ \A i, j \in 1..Len(book_series) :
                     i < j => FirstCall(log, book_series[i].seriesId)
                                 < FirstCall(log, book_series[j].seriesId)

\* three calls, the third for the seriesId of the first with another hasRead
C27_Witness ==
    /\ NoneUnderWay
    /\ Len(quiz_users_collection) = 1
    /\ Len(UserLog(1)) = 3
    /\ UserLog(1)[1].seriesId = UserLog(1)[3].seriesId
    /\ UserLog(1)[1].seriesId # UserLog(1)[2].seriesId
    /\ UserLog(1)[1].hasRead # UserLog(1)[3].hasRead
    /\ Len(quiz_users_collection[1].bookSeries) = 2
    /\ quiz_users_collection[1].bookSeries[1].hasRead = UserLog(1)[3].hasRead

\* C28: a request answered 404 'User not found' has left the store as it
\* was: quiz_responses holds no record for its user id
C28_NotFoundLeavesStore ==
    \A r \in DOMAIN in_flight :
        (in_flight[r].pc = "done" /\ in_flight[r].status = 404) =>
            /\ in_flight[r].error = "User not found"
            /\ UserLog(in_flight[r].user_id) = <<>>

\* the place of a label in AGE_GROUPS
GroupIndex(group) == CHOOSE k \in 1..Len(AGE_GROUPS) : AGE_GROUPS[k] = group

\* C29: get_age_group is monotone over the accepted ages, fractional ones
\* included: no greater age has a bracket that comes before the bracket of
\* the age looked up; and the bracket is the one the plan statistics give
\* the same age
C29_MonotoneAndSameAsStats ==
    pc # "recdoc" =>
        /\ \A b \in data.age.h..Yr(MaxAge) :
              GroupIndex(LookedUpGroup) <= GroupIndex(get_age_group(b))
        /\ LookedUpGroup = StatsAgeGroup(data.age.h)

\* the text has the piece among its pieces
Holds(text, piece) == \E p \in 1..Len(text.parts) : text.parts[p] = piece

\* C30: for an input with a non-empty current list, the title of every
\* top pick is in at least one of the messages, and no message is the
\* header alone (with or without the footer)
C30_PicksAreSent ==
    (pc = "done" /\ data.current # <<>>) =>
        /\ \A i \in 1..Len(data.current) :
              \E m \in 1..Len(messages) :
                 Holds(messages[m], data.current[i].title.parts[1])
        /\ \A m \in 1..Len(messages) :
              /\ messages[m] # Header(data.name)
              /\ messages[m] # Cat(Header(data.name), Footer)
=============================================================================
